---------------------------- MODULE Spec2Model ----------------------------
(***************************************************************************)
(* A model of the SQL-backed store of whatsmeow (package sqlstore):        *)
(* store.go (SQLStore and its per-family operations) and upgrade.go (the   *)
(* schema migrations).  Tables are relations (sets of row records); every  *)
(* database statement either takes effect as its SQL says or fails with a  *)
(* back-end error chosen by the environment.                               *)
(*                                                                         *)
(* Each family of operations has its own specification (SpecSyncKey,       *)
(* SpecPreKey, ...) over the shared variables; a family's actions leave    *)
(* the other families' variables unchanged.                                *)
(***************************************************************************)
EXTENDS Integers, Sequences, FiniteSets, TLC

VARIABLES
    dialect,        \* Container.dialect, fixed at construction
    \* ---- app-state sync keys
    syncKeys,       \* rows of whatsmeow_app_state_sync_keys of this account
    skRet,          \* the last PutAppStateSyncKey / GetAppStateSyncKey call and its result
    \* ---- pre-keys
    preKeys,        \* rows of whatsmeow_pre_keys of this account
    preKeyLock,     \* SQLStore.preKeyLock: the goroutine holding it, or NoProc
    pk,             \* per goroutine: the pre-key call in flight and its local variables
    genMax,         \* greatest key id returned by a completed GenOnePreKey call (0: none yet)
    pkRet,          \* the last pre-key call that returned, and its result
    \* ---- message secrets
    msgSecrets,     \* rows of whatsmeow_message_secrets of this account
    ms,             \* the message-secret call in flight or just returned, with its locals
    \* ---- app-state mutation MACs
    mutationMACs,   \* rows of whatsmeow_app_state_mutation_macs of this account
    mm,             \* the PutAppStateMutationMACs call that just returned, if any
    \* ---- contacts
    contacts,       \* rows of whatsmeow_contacts of this account
    contactCache,   \* SQLStore.contactCache: map from JID to ContactInfo
    ct,             \* the PutAllContactNames call in flight or just returned, if any
    cl,             \* the contact call that holds contactCacheLock or just returned, if any
    \* ---- devices and the rows they own
    devices,        \* jid column of the rows of whatsmeow_device
    dbRows,         \* per account-scoped table: the rows stored, by owning jid
    \* ---- identity keys
    identities,     \* rows of whatsmeow_identity_keys of this account
    idc,            \* the identity call that just returned, if any
    \* ---- schema migrations
    foreignKeys,    \* whether the session enforces foreign keys
    database,       \* the committed database the migrations work on
    up,             \* the Upgrade call in flight or just returned, with its locals
    \* ---- reads
    rd,             \* the Get / Has call that just returned, if any, and its result
    \* ---- sessions, sender keys, app-state versions, privacy tokens
    kvRows,         \* per table: the rows stored, of every account
    kv,             \* the Put / Get call that just returned, if any, and its result
    \* ---- chat settings
    chatSettings,   \* rows of whatsmeow_chat_settings, of every account
    cs,             \* the chat-settings call that just returned, if any, and its result
    \* ---- statement rendering
    dq,             \* the dialectQuery call that just returned, if any, and its result
    \* ---- app-state versions and MACs of one account
    mc              \* the Delete call of the account that has just returned

skVars == <<syncKeys, skRet>>
pkVars == <<preKeys, preKeyLock, pk, genMax, pkRet>>
msVars == <<msgSecrets, ms>>
mmVars == <<mutationMACs, mm>>
ctVars == <<contacts, contactCache, ct, cl>>
dvVars == <<devices, dbRows>>
idVars == <<identities, idc>>
upVars == <<foreignKeys, database, up>>
rdVars == <<rd>>
kvVars == <<kvRows, kv>>
csVars == <<chatSettings, cs>>
dqVars == <<dq>>
mcVars == <<mc>>
vars == <<dialect, skVars, pkVars, msVars, mmVars, ctVars, dvVars, idVars, upVars, rdVars, kvVars, csVars, dqVars, mcVars>>

\* What the actions of one family leave alone.
skOther == <<dialect, pkVars, msVars, mmVars, ctVars, dvVars, idVars, upVars, rdVars, kvVars, csVars, dqVars, mcVars>>
pkOther == <<dialect, skVars, msVars, mmVars, ctVars, dvVars, idVars, upVars, rdVars, kvVars, csVars, dqVars, mcVars>>
msOther == <<dialect, skVars, pkVars, mmVars, ctVars, dvVars, idVars, upVars, rdVars, kvVars, csVars, dqVars, mcVars>>
mmOther == <<dialect, skVars, pkVars, msVars, ctVars, dvVars, idVars, upVars, rdVars, kvVars, csVars, dqVars, mcVars>>
ctOther == <<dialect, skVars, pkVars, msVars, mmVars, dvVars, idVars, upVars, rdVars, kvVars, csVars, dqVars, mcVars>>
dvOther == <<dialect, skVars, pkVars, msVars, mmVars, ctVars, idVars, upVars, rdVars, kvVars, csVars, dqVars, mcVars>>
idOther == <<dialect, skVars, pkVars, msVars, mmVars, ctVars, dvVars, upVars, rdVars, kvVars, csVars, dqVars, mcVars>>
upOther == <<dialect, skVars, pkVars, msVars, mmVars, ctVars, dvVars, idVars, rdVars, kvVars, csVars, dqVars, mcVars>>
rdOther == <<dialect, skVars, pkVars, msVars, mmVars, ctVars, dvVars, idVars, upVars, kvVars, csVars, dqVars, mcVars>>
kvOther == <<dialect, skVars, pkVars, msVars, mmVars, ctVars, dvVars, idVars, upVars, rdVars, csVars, dqVars, mcVars>>
csOther == <<dialect, skVars, pkVars, msVars, mmVars, ctVars, dvVars, idVars, upVars, rdVars, kvVars, dqVars, mcVars>>
dqOther == <<dialect, skVars, pkVars, msVars, mmVars, ctVars, dvVars, idVars, upVars, rdVars, kvVars, csVars, mcVars>>
mcOther == <<dialect, skVars, pkVars, msVars, mmVars, ctVars, dvVars, idVars, upVars, rdVars, kvVars, csVars, dqVars>>

\* The dialect tags the store code branches on (store.go compares with
\* "mysql" and "sqlite3"; any other tag takes the PostgreSQL path).
Dialects == {"postgres", "sqlite3", "mysql"}

\* Outcome of one database statement as far as the back-end is concerned.
DbOK == "ok"
DbLockTimeout == "Lock wait timeout exceeded"
DbOther == "other"
DbOutcomes == {DbOK, DbLockTimeout, DbOther}

Nil == "nil"

\* A byte slice is its length and its content.
Bytes(len, content) == [len |-> len, content |-> content]

Max(S) == CHOOSE x \in S : \A y \in S : y <= x
Min(S) == CHOOSE x \in S : \A y \in S : x <= y

(***************************************************************************)
(* Statement texts (store.go): a statement is the sequence of its pieces,  *)
(* a positional marker $N being the character '$' followed by the decimal  *)
(* digits of N.                                                            *)
(***************************************************************************)
DigitChars == <<"0", "1", "2", "3", "4", "5", "6", "7", "8", "9">>

\* fmt.Sprintf("%d", n) for 0 <= n < 100
Digits(n) ==
    IF n < 10 THEN <<DigitChars[n + 1]>>
    ELSE <<DigitChars[(n \div 10) + 1], DigitChars[(n % 10) + 1]>>

\* fmt.Sprintf("$%d", n)
Marker(n) == <<"$">> \o Digits(n)

\* strings.ReplaceAll(s, old, new) with new one piece long: the occurrences
\* of old from left to right.  The patterns used here start with '$', which
\* occurs nowhere else in them, so two occurrences never overlap.
ReplaceAll(s, old, new) ==
    LET starts == {p \in 1..(Len(s) - Len(old) + 1) :
                       SubSeq(s, p, p + Len(old) - 1) = old}
        dropped == {q \in 1..Len(s) : \E p \in starts : p < q /\ q < p + Len(old)}
        kept == (1..Len(s)) \ dropped
        nth(j) == CHOOSE i \in kept : Cardinality({k \in kept : k <= i}) = j
    IN  [j \in 1..Cardinality(kept) |->
            IF nth(j) \in starts THEN new ELSE s[nth(j)]]

\* The greatest marker number dialectQuery looks for.
MaxMarker == 20

\* for i := 1; i <= 20; i++ { result = strings.ReplaceAll(result, "$i", "?") }
RECURSIVE ReplaceMarkers(_, _)
ReplaceMarkers(result, i) ==
    IF i > MaxMarker THEN result
    ELSE ReplaceMarkers(ReplaceAll(result, Marker(i), "?"), i + 1)

\* The pieces dialectQuery rewrites for MySQL after the markers.
MySQLPiece(piece) ==
    CASE piece = "ON CONFLICT (our_jid, their_id) DO UPDATE SET session=excluded.session" ->
            "ON DUPLICATE KEY UPDATE session=VALUES(session)"
      [] piece = "ON CONFLICT (our_jid, chat_id, sender_id) DO UPDATE SET sender_key=excluded.sender_key" ->
            "ON DUPLICATE KEY UPDATE sender_key=VALUES(sender_key)"
      [] piece = "ON CONFLICT (jid, name) DO UPDATE SET version=excluded.version, hash=excluded.hash" ->
            "ON DUPLICATE KEY UPDATE version=VALUES(version), hash=VALUES(hash)"
      [] piece = "ON CONFLICT (our_jid, chat_jid) DO UPDATE SET" ->
            "ON DUPLICATE KEY UPDATE"
      [] OTHER -> piece

\* SQLStore.dialectQuery
dialectQuery(d, query) ==
    IF d = "mysql" \/ d = "sqlite3"
    THEN LET result == ReplaceMarkers(query, 1)
         IN  IF d = "mysql" THEN [i \in 1..Len(result) |-> MySQLPiece(result[i])]
             ELSE result
    ELSE query

\* The positions of the pieces of a statement that equal c.
Positions(q, c) == {p \in 1..Len(q) : q[p] = c}

IsDigit(c) == \E i \in 1..10 : DigitChars[i] = c

\* The number a run of digits starting at position p of q spells (0: none).
NumberAt(q, p) ==
    IF p > Len(q) \/ ~IsDigit(q[p]) THEN 0
    ELSE LET d1 == (CHOOSE i \in 1..10 : DigitChars[i] = q[p]) - 1
         IN  IF p + 1 > Len(q) \/ ~IsDigit(q[p + 1]) THEN d1
             ELSE d1 * 10 + (CHOOSE i \in 1..10 : DigitChars[i] = q[p + 1]) - 1

\* The elements of a set of numbers in ascending order.
Ascending(S) ==
    [j \in 1..Cardinality(S) |-> CHOOSE i \in S : Cardinality({k \in S : k <= i}) = j]

\* The engine behind a dialect tag.
EngineOf(d) ==
    CASE d = "mysql" -> "mysql"
      [] d = "sqlite3" \/ d = "sqlite" -> "sqlite"
      [] OTHER -> "postgres"

\* The places of a statement that stand for a parameter.
Placeholders(q) == Ascending(Positions(q, "?") \cup Positions(q, "$"))

NumberedAt(q, p) == p < Len(q) /\ IsDigit(q[p + 1])

\* SQLite numbers its parameters from left to right: ?NNN names parameter
\* NNN, a plain ? and a new $name take the number after the largest one given
\* so far, a $name seen before keeps its number.
RECURSIVE SQLiteParams(_, _, _, _, _)
SQLiteParams(q, ps, k, largest, named) ==
    IF k > Len(ps) THEN <<>>
    ELSE LET p == ps[k]
             n == NumberAt(q, p + 1)
             known == {x \in named : x[1] = n}
             idx == IF q[p] = "?"
                    THEN IF NumberedAt(q, p) THEN n ELSE largest + 1
                    ELSE IF known # {} THEN (CHOOSE x \in known : TRUE)[2]
                    ELSE largest + 1
         IN  <<idx>> \o SQLiteParams(q, ps, k + 1, Max({largest, idx}),
                                     IF q[p] = "$" THEN named \cup {<<n, idx>>} ELSE named)

\* The argument each placeholder of a statement takes, in the order of the
\* placeholders: PostgreSQL reads $N as argument N, MySQL gives the k-th ?
\* the k-th argument.  0 stands for a placeholder the engine rejects.
ParamIndexes(e, q) ==
    LET ps == Placeholders(q)
    IN  CASE e = "postgres" ->
                [k \in 1..Len(ps) |-> IF q[ps[k]] = "$" THEN NumberAt(q, ps[k] + 1) ELSE 0]
          [] e = "mysql" ->
                [k \in 1..Len(ps) |->
                    IF q[ps[k]] = "?" /\ ~NumberedAt(q, ps[k]) THEN k ELSE 0]
          [] e = "sqlite" -> SQLiteParams(q, ps, 1, 0, {})

\* A statement as the engine of dialect d sees it: its text and the argument
\* of each placeholder.
Statement(d, q) == [text |-> q, params |-> ParamIndexes(EngineOf(d), q)]

\* The number of arguments a statement takes.
NumInput(st) ==
    IF st.params = <<>> THEN 0 ELSE Max({st.params[k] : k \in 1..Len(st.params)})

\* Whether the engine prepares the statement and database/sql passes the
\* arguments on: every placeholder is one the engine knows and the statement
\* takes as many arguments as the call gives.
Prepares(st, args) ==
    /\ \A k \in 1..Len(st.params) : st.params[k] > 0
    /\ NumInput(st) = Len(args)

\* The arguments the placeholders of a prepared statement are bound to.
Bound(st, args) == [k \in 1..Len(st.params) |-> args[st.params[k]]]

ArgumentCount == "sql: expected a different number of arguments"

\* strings.Join(parts, sep) on statements
RECURSIVE Join(_, _)
Join(parts, sep) ==
    IF parts = <<>> THEN <<>>
    ELSE IF Len(parts) = 1 THEN parts[1]
    ELSE parts[1] \o sep \o Join(Tail(parts), sep)

\* "($a, $b, ...)" for the marker numbers ns
MarkerTuple(ns) == <<"(">> \o Join([i \in 1..Len(ns) |-> Marker(ns[i])], <<",">>) \o <<")">>

\* "(?, ?, ...)" with n question marks
QuestionTuple(n) == <<"(">> \o Join([i \in 1..n |-> <<"?">>], <<",">>) \o <<")">>

\* "a=$1 AND b=$2 ..." : the markers 1..n of a WHERE clause
WhereMarkers(n) == Join([i \in 1..n |-> Marker(i)], <<"AND">>)

(***************************************************************************)
(* App-state sync keys                                                     *)
(***************************************************************************)
MaxKeyIDs == 2
MaxTimestamp == 3
MaxData == 2

SyncKeyIDs == 1..MaxKeyIDs
Timestamps == 1..MaxTimestamp
KeyData == 1..MaxData
AppStateSyncKeys == [Data : KeyData, Timestamp : Timestamps, Fingerprint : {1}]

SyncKeyRow(id, key) ==
    [key_id |-> id, key_data |-> key.Data, timestamp |-> key.Timestamp,
     fingerprint |-> key.Fingerprint]

SyncKeyRowsOf(rows, id) == {r \in rows : r.key_id = id}

\* INSERT ... ON CONFLICT (jid, key_id) DO UPDATE SET ... WHERE
\* excluded.timestamp > whatsmeow_app_state_sync_keys.timestamp
putAppStateSyncKeyQuery(rows, row) ==
    IF SyncKeyRowsOf(rows, row.key_id) = {}
    THEN rows \cup {row}
    ELSE LET old == CHOOSE r \in SyncKeyRowsOf(rows, row.key_id) : TRUE
         IN  IF row.timestamp > old.timestamp
             THEN (rows \ {old}) \cup {row}
             ELSE rows

\* INSERT ... ON DUPLICATE KEY UPDATE key_data=VALUES(key_data),
\* timestamp=VALUES(timestamp), fingerprint=VALUES(fingerprint)
putAppStateSyncKeyMySQL(rows, row) ==
    (rows \ SyncKeyRowsOf(rows, row.key_id)) \cup {row}

\* The rows PutAppStateSyncKey leaves when its statement(s) succeed.
PutAppStateSyncKeyRows(d, rows, id, key) ==
    IF d = "mysql"
    THEN putAppStateSyncKeyMySQL(rows, SyncKeyRow(id, key))
    ELSE putAppStateSyncKeyQuery(rows, SyncKeyRow(id, key))

\* GetAppStateSyncKey: the key stored under id, or Nil.  On MySQL a miss of
\* the direct lookup is followed by the lookup on HEX(key_id); both select
\* on the same column value.
GetAppStateSyncKey(d, rows, id) ==
    LET direct == SyncKeyRowsOf(rows, id)
        byHex == IF d = "mysql" /\ direct = {} THEN SyncKeyRowsOf(rows, id) ELSE direct
    IN  IF byHex = {}
        THEN [found |-> FALSE, Data |-> 0, Timestamp |-> 0, Fingerprint |-> 0]
        ELSE LET r == CHOOSE r \in byHex : TRUE
             IN  [found |-> TRUE, Data |-> r.key_data, Timestamp |-> r.timestamp,
                  Fingerprint |-> r.fingerprint]

\* PutAppStateSyncKey(id, key): on MySQL Begin / Exec / Commit, elsewhere one
\* Exec; a failing statement leaves the table as it was and is returned.
PutAppStateSyncKey(id, key, db) ==
    /\ syncKeys' = IF db = DbOK
                   THEN PutAppStateSyncKeyRows(dialect, syncKeys, id, key)
                   ELSE syncKeys
    /\ skRet' = [op |-> "PutAppStateSyncKey", id |-> id, key |-> key,
                 err |-> IF db = DbOK THEN Nil ELSE db,
                 before |-> GetAppStateSyncKey(dialect, syncKeys, id)]
    /\ UNCHANGED skOther

SkInit ==
    /\ syncKeys = {}
    /\ skRet = [op |-> "none", id |-> 0,
                key |-> [Data |-> 0, Timestamp |-> 0, Fingerprint |-> 0],
                err |-> Nil,
                before |-> [found |-> FALSE, Data |-> 0, Timestamp |-> 0, Fingerprint |-> 0]]

SkNext ==
    \E id \in SyncKeyIDs, key \in AppStateSyncKeys, db \in {DbOK, DbOther} :
        PutAppStateSyncKey(id, key, db)

(***************************************************************************)
(* Pre-keys                                                                *)
(***************************************************************************)
NProcs == 2
MaxKeyID == 3
MaxCount == 2

Procs == 1..NProcs
NoProc == 0
PreKeyLen == 32

PreKeyIDs(rows) == {r.key_id : r \in rows}

\* SELECT MAX(key_id) scanned into a sql.NullInt32 (NULL reads as 0), plus one.
\* Key ids stay below 2^24 (the schema's CHECK), so the uint32 sum never wraps.
getNextPreKeyID(rows) ==
    LET lastKeyID == IF rows = {} THEN 0 ELSE Max(PreKeyIDs(rows))
    IN  lastKeyID + 1

\* SELECT key_id, key ... WHERE uploaded=false ORDER BY key_id LIMIT count:
\* the ids of the rows selected, ascending.
RECURSIVE AscendingIDs(_, _)
AscendingIDs(ids, limit) ==
    IF ids = {} \/ limit = 0 THEN <<>>
    ELSE <<Min(ids)>> \o AscendingIDs(ids \ {Min(ids)}, limit - 1)

getUnuploadedPreKeysQuery_AnyKey(rows, count) ==
    AscendingIDs({r.key_id : r \in rows}, count)

getUnuploadedPreKeysQuery(rows, count) ==
    AscendingIDs({r.key_id : r \in {x \in rows : ~x.uploaded}}, count)

\* scanPreKey on the selected rows: a key that is not 32 bytes long is ErrInvalidLength.
ScanFails(rows, ids) ==
    \E r \in rows : r.key_id \in {ids[i] : i \in 1..Len(ids)} /\ r.keyLen # PreKeyLen

\* INSERT INTO whatsmeow_pre_keys: PRIMARY KEY (jid, key_id) rejects a stored id.
InsertPreKeyOK(rows, id, db) == db = DbOK /\ id \notin PreKeyIDs(rows)

insertPreKeyQuery_NeverUploaded(rows, id, markUploaded) ==
    rows \cup {[key_id |-> id, keyLen |-> PreKeyLen, uploaded |-> FALSE]}

insertPreKeyQuery(rows, id, markUploaded) ==
    rows \cup {[key_id |-> id, keyLen |-> PreKeyLen, uploaded |-> markUploaded]}

\* SELECT COUNT(*) FROM whatsmeow_pre_keys WHERE jid=$1 AND uploaded=true
getUploadedPreKeyCountQuery(rows) == Cardinality({r \in rows : r.uploaded})

\* DELETE FROM whatsmeow_pre_keys WHERE jid=$1 AND key_id=$2
deletePreKeyQuery(rows, id) == {r \in rows : r.key_id # id}

markPreKeysAsUploadedQuery_Below(rows, upToID) ==
    {IF r.key_id < upToID THEN [r EXCEPT !.uploaded = TRUE] ELSE r : r \in rows}

\* UPDATE whatsmeow_pre_keys SET uploaded=true WHERE jid=$1 AND key_id<=$2
markPreKeysAsUploadedQuery(rows, upToID) ==
    {IF r.key_id <= upToID THEN [r EXCEPT !.uploaded = TRUE] ELSE r : r \in rows}

\* s.preKeyLock.Lock() succeeds when no goroutine holds the mutex.
TryLock_NoMutex(holder) == TRUE

TryLock(holder) == holder = NoProc

PkIdle == [pc |-> "idle", op |-> "none", count |-> 0, nextKeyID |-> 0,
           newKeys |-> <<>>, startMax |-> 0, before |-> {}]

\* The key ids the calls in flight may still insert.
PkPending == LET RECURSIVE Sum(_)
                 Sum(S) == IF S = {} THEN 0
                           ELSE LET p == CHOOSE q \in S : TRUE
                                IN  pk[p].count + Sum(S \ {p})
             IN  Sum(Procs)

PkHighest == IF preKeys = {} THEN 0 ELSE Max(PreKeyIDs(preKeys))

\* A goroutine calls GenOnePreKey() or GetOrGenPreKeys(count).
PkCall(p, op, count) ==
    /\ pk[p].pc = "idle"
    /\ PkHighest + PkPending + count <= MaxKeyID
    /\ pk' = [pk EXCEPT ![p] = [PkIdle EXCEPT !.pc = "lock", !.op = op,
                                              !.count = count, !.startMax = genMax]]
    /\ UNCHANGED <<pkOther, preKeys, preKeyLock, genMax, pkRet>>

\* s.preKeyLock.Lock()
PkLock(p) ==
    /\ pk[p].pc = "lock"
    /\ TryLock(preKeyLock)
    /\ preKeyLock' = p
    /\ pk' = [pk EXCEPT ![p].pc = IF pk[p].op = "GenOnePreKey" THEN "next" ELSE "query",
                         ![p].before = preKeys]
    /\ UNCHANGED <<pkOther, preKeys, genMax, pkRet>>

\* The call of goroutine p returns ids and err; the deferred Unlock runs.
PkReturn(p, ids, err) ==
    /\ pkRet' = [op |-> pk[p].op, ids |-> ids, err |-> err, startMax |-> pk[p].startMax,
                 before |-> pk[p].before]
    /\ genMax' = IF pk[p].op = "GenOnePreKey" /\ err = Nil /\ ids[1] > genMax
                 THEN ids[1] ELSE genMax
    /\ preKeyLock' = IF preKeyLock = p THEN NoProc ELSE preKeyLock
    /\ pk' = [pk EXCEPT ![p] = PkIdle]

\* GetOrGenPreKeys: the query for the existing not-uploaded keys and the scan loop.
PkQueryExisting(p, db) ==
    /\ pk[p].pc = "query"
    /\ LET ids == getUnuploadedPreKeysQuery(preKeys, pk[p].count)
       IN  IF db # DbOK
           THEN PkReturn(p, <<>>, db)
           ELSE IF ScanFails(preKeys, ids)
           THEN PkReturn(p, <<>>, "ErrInvalidLength")
           ELSE IF Len(ids) < pk[p].count
           THEN /\ pk' = [pk EXCEPT ![p].pc = "next", ![p].newKeys = ids]
                /\ UNCHANGED <<preKeyLock, genMax, pkRet>>
           ELSE PkReturn(p, ids, Nil)
    /\ UNCHANGED <<pkOther, preKeys>>

\* s.getNextPreKeyID()
PkGetNext(p, db) ==
    /\ pk[p].pc = "next"
    /\ IF db # DbOK
       THEN PkReturn(p, <<>>, db)
       ELSE /\ pk' = [pk EXCEPT ![p].pc = "insert",
                                ![p].nextKeyID = getNextPreKeyID(preKeys)]
            /\ UNCHANGED <<preKeyLock, genMax, pkRet>>
    /\ UNCHANGED <<pkOther, preKeys>>

\* s.genOnePreKey(nextKeyID, markUploaded): one insert; GenOnePreKey marks the key
\* uploaded and returns, GetOrGenPreKeys does not and goes on to the next id.
PkInsert(p, db) ==
    /\ pk[p].pc = "insert"
    /\ LET id == pk[p].nextKeyID
           one == pk[p].op = "GenOnePreKey"
           got == Append(pk[p].newKeys, id)
       IN  IF ~InsertPreKeyOK(preKeys, id, db)
           THEN /\ PkReturn(p, <<>>, IF db = DbOK THEN "duplicate key" ELSE db)
                /\ UNCHANGED preKeys
           ELSE /\ preKeys' = insertPreKeyQuery(preKeys, id, one)
                /\ IF one \/ Len(got) = pk[p].count
                   THEN PkReturn(p, got, Nil)
                   ELSE /\ pk' = [pk EXCEPT ![p].newKeys = got,
                                            ![p].nextKeyID = id + 1]
                        /\ UNCHANGED <<preKeyLock, genMax, pkRet>>
    /\ UNCHANGED pkOther

RemovePreKey(id, db) ==
    /\ preKeys' = IF db = DbOK THEN deletePreKeyQuery(preKeys, id) ELSE preKeys
    /\ UNCHANGED <<pkOther, preKeyLock, pk, genMax, pkRet>>

MarkPreKeysAsUploaded(upToID, db) ==
    /\ preKeys' = IF db = DbOK THEN markPreKeysAsUploadedQuery(preKeys, upToID) ELSE preKeys
    /\ UNCHANGED <<pkOther, preKeyLock, pk, genMax, pkRet>>

PkInit ==
    /\ preKeys = {}
    /\ preKeyLock = NoProc
    /\ pk = [p \in Procs |-> PkIdle]
    /\ genMax = 0
    /\ pkRet = [op |-> "none", ids |-> <<>>, err |-> Nil, startMax |-> 0, before |-> {}]

\* The allocators and MarkPreKeysAsUploaded, without removals.
PkAllocNext ==
    \/ \E p \in Procs : PkCall(p, "GenOnePreKey", 1)
    \/ \E p \in Procs, count \in 1..MaxCount : PkCall(p, "GetOrGenPreKeys", count)
    \/ \E p \in Procs : PkLock(p)
    \/ \E p \in Procs, db \in {DbOK, DbOther} : PkQueryExisting(p, db)
    \/ \E p \in Procs, db \in {DbOK, DbOther} : PkGetNext(p, db)
    \/ \E p \in Procs, db \in {DbOK, DbOther} : PkInsert(p, db)
    \/ \E id \in 1..MaxKeyID, db \in {DbOK, DbOther} : MarkPreKeysAsUploaded(id, db)

PkNext ==
    \/ PkAllocNext
    \/ \E id \in 1..MaxKeyID, db \in {DbOK, DbOther} : RemovePreKey(id, db)

\* One caller: goroutine 1 makes the pre-key calls one after another, and
\* RemovePreKey and MarkPreKeysAsUploaded are called between them.
PkSeqNext ==
    \/ PkCall(1, "GenOnePreKey", 1)
    \/ \E count \in 1..MaxCount : PkCall(1, "GetOrGenPreKeys", count)
    \/ PkLock(1)
    \/ \E db \in {DbOK, DbOther} : PkQueryExisting(1, db)
    \/ \E db \in {DbOK, DbOther} : PkGetNext(1, db)
    \/ \E db \in {DbOK, DbOther} : PkInsert(1, db)
    \/ /\ preKeyLock = NoProc
       /\ \E id \in 1..MaxKeyID, db \in {DbOK, DbOther} : MarkPreKeysAsUploaded(id, db)
    \/ /\ preKeyLock = NoProc
       /\ \E id \in 1..MaxKeyID, db \in {DbOK, DbOther} : RemovePreKey(id, db)

(***************************************************************************)
(* Message secrets                                                         *)
(***************************************************************************)
msgSecretBatchSize == 50
maxRetries == 3
MaxBulkChunks == 2

\* A types.JID as far as ToNonAD is concerned: the user and the device part.
MsChat == [User |-> "chat", Device |-> "none"]
MsSenders == {[User |-> "sender", Device |-> d] : d \in {"none", "dev7"}}
MsSender == [User |-> "sender", Device |-> "none"]
ToNonAD(jid) == [jid EXCEPT !.Device = "none"]

Secrets == {"k1", "k2"}
MessageSecretInserts ==
    [Chat : {MsChat}, Sender : MsSenders, ID : {1}, Secret : Secrets]

\* A batch of n inserts for the message ids 1..n, all carrying the secret "k2".
BulkInserts(n) ==
    [k \in 1..n |-> [Chat |-> MsChat, Sender |-> MsSender, ID |-> k, Secret |-> "k2"]]

\* The batches of at most one insert.
SmallBatches == {<<>>} \cup {<<insert>> : insert \in MessageSecretInserts}
BulkLens == {msgSecretBatchSize} \cup
            {k * msgSecretBatchSize + 1 : k \in 1..(MaxBulkChunks - 1)}
BulkBatches == {BulkInserts(n) : n \in BulkLens}

\* Errors: the message of the outermost error, the back-end error it wraps
\* (whose text err.Error() contains), and the attempt count it reports.
NilErr == [msg |-> Nil, cause |-> Nil, attempts |-> 0]
WrapErr(msg, cause) == [msg |-> msg, cause |-> cause, attempts |-> 0]
RetryExhausted == [msg |-> "failed to store message secrets after %d retry attempts",
                   cause |-> Nil, attempts |-> maxRetries]

\* strings.Contains(err.Error(), "Lock wait timeout exceeded")
IsLockTimeout(err) == err.cause = DbLockTimeout

\* The text bound for a JID argument: the non-AD JID has no device part.
JIDString(jid) ==
    IF jid.Device = "none" THEN jid.User ELSE jid.User \o ":" \o jid.Device

MsRow(insert) ==
    [chat_jid |-> JIDString(ToNonAD(insert.Chat)),
     sender_jid |-> JIDString(ToNonAD(insert.Sender)),
     message_id |-> insert.ID, key |-> insert.Secret]

MsSameKey(r1, r2) ==
    /\ r1.message_id = r2.message_id
    /\ r1.sender_jid = r2.sender_jid
    /\ r1.chat_jid = r2.chat_jid

\* INSERT ... ON CONFLICT (...) DO UPDATE SET key=excluded.key: what an
\* overwriting upsert would store.
putMsgSecret_Overwrite(rows, row) ==
    {r \in rows : ~MsSameKey(r, row)} \cup {row}

\* INSERT ... ON CONFLICT (our_jid, chat_jid, sender_jid, message_id) DO NOTHING;
\* on MySQL INSERT ... ON DUPLICATE KEY UPDATE our_jid=our_jid.
putMsgSecret(rows, row) ==
    IF \E r \in rows : MsSameKey(r, row) THEN rows ELSE rows \cup {row}

\* The loop of putMessageSecretsInternal over the inserts, inside the
\* transaction: statement k stores its row unless putMsgSecret finds the key in
\* the table or an earlier statement of the loop has inserted it.
MsInsertAll(rows, inserts) ==
    LET row(k) == MsRow(inserts[k])
        stored == {k \in 1..Len(inserts) :
                      /\ putMsgSecret(rows, row(k)) # rows
                      /\ \A j \in 1..(k - 1) : ~MsSameKey(row(j), row(k))}
    IN  rows \cup {row(k) : k \in stored}

\* What one putMessageSecretsInternal call meets: every statement succeeds, or
\* Begin, one of the inserts or Commit fails with a back-end error of some kind.
MsStages == {"begin", "insert", "commit"}
MsOutcomes(n) ==
    {[stage |-> "ok", kind |-> DbOK]} \cup
    {[stage |-> st, kind |-> k] :
        st \in (IF n = 0 THEN MsStages \ {"insert"} ELSE MsStages),
        k \in {DbLockTimeout, DbOther}}

\* putMessageSecretsInternal: a failed insert is followed by tx.Rollback(); a
\* failed Begin or Commit leaves nothing committed either.
putMessageSecretsInternal(rows, inserts, outcome) ==
    CASE outcome.stage = "ok" ->
            [rows |-> MsInsertAll(rows, inserts), err |-> NilErr]
      [] outcome.stage = "begin" ->
            [rows |-> rows, err |-> WrapErr("failed to begin transaction", outcome.kind)]
      [] outcome.stage = "insert" ->
            [rows |-> rows, err |-> WrapErr("failed to insert message secret", outcome.kind)]
      [] OTHER ->
            [rows |-> rows, err |-> WrapErr("failed to commit transaction", outcome.kind)]

\* A retry predicate under which a successful attempt does not end the loop.
ReturnsImmediately_NotOnSuccess(d, err) ==
    err # NilErr /\ d = "mysql" /\ ~IsLockTimeout(err)

\* putMessageSecretsWithRetry, line 1091: the attempt's result is returned at once.
ReturnsImmediately(d, err) ==
    err = NilErr \/ (d = "mysql" /\ ~IsLockTimeout(err))

\* PutMessageSecrets, lines 1064-1069: the chunk starting at offset i (0-based).
MsChunk(inserts, i) ==
    IF Len(inserts) > msgSecretBatchSize
    THEN LET end == IF i + msgSecretBatchSize > Len(inserts)
                    THEN Len(inserts) ELSE i + msgSecretBatchSize
         IN  SubSeq(inserts, i + 1, end)
    ELSE inserts

MsLastChunk(inserts, i) ==
    Len(inserts) <= msgSecretBatchSize \/ i + msgSecretBatchSize >= Len(inserts)

\* ms: pc "idle" (no call), "attempt" (PutMessageSecrets is about to make an
\* attempt on the chunk at offset i) or "done" (a call has just returned err).
\* hist: the back-end outcome of each attempt made on the current chunk; slept:
\* the delays (ms) slept in it; before / chunkBefore: the table when the call /
\* the current chunk began.
MsIdle == [pc |-> "idle", op |-> "none", inserts |-> <<>>, i |-> 0, attempt |-> 0,
           hist |-> <<>>, slept |-> <<>>, before |-> {}, chunkBefore |-> {},
           err |-> NilErr]

\* PutMessageSecrets(inserts) is called.
MsCall(inserts) ==
    /\ ms.pc = "idle"
    /\ ms' = [MsIdle EXCEPT !.pc = "attempt", !.op = "PutMessageSecrets",
                            !.inserts = inserts,
                            !.before = msgSecrets, !.chunkBefore = msgSecrets]
    /\ UNCHANGED <<msOther, msgSecrets>>

\* One iteration of the loop of putMessageSecretsWithRetry on the current chunk,
\* and what PutMessageSecrets does with the result when the loop ends.
MsAttempt(outcome) ==
    /\ ms.pc = "attempt"
    /\ LET res == putMessageSecretsInternal(msgSecrets, MsChunk(ms.inserts, ms.i), outcome)
           hist == Append(ms.hist, outcome.kind)
           backoffMs == 100 * (ms.attempt + 1)
           slept == Append(ms.slept, backoffMs)
       IN  /\ msgSecrets' = res.rows
           /\ ms' =
                IF ReturnsImmediately(dialect, res.err)
                THEN IF res.err # NilErr \/ MsLastChunk(ms.inserts, ms.i)
                     THEN [ms EXCEPT !.pc = "done", !.hist = hist, !.err = res.err]
                     ELSE [ms EXCEPT !.i = ms.i + msgSecretBatchSize, !.attempt = 0,
                                     !.hist = <<>>, !.slept = <<>>,
                                     !.chunkBefore = res.rows]
                ELSE IF ms.attempt + 1 < maxRetries
                     THEN [ms EXCEPT !.attempt = ms.attempt + 1, !.hist = hist,
                                     !.slept = slept]
                     ELSE [ms EXCEPT !.pc = "done", !.hist = hist, !.slept = slept,
                                     !.err = RetryExhausted]
    /\ UNCHANGED msOther

\* The attempts of PutMessageSecret: on MySQL up to three Execs, stopping at the
\* first that succeeds or fails with something else than a lock timeout; on the
\* other dialects one Exec.  Returns the last Exec's error and the Execs made.
RECURSIVE PutMessageSecretTry(_, _, _)
PutMessageSecretTry(d, outcomes, attempt) ==
    LET db == outcomes[attempt + 1]
    IN  IF db = DbOK THEN [err |-> NilErr, attempts |-> attempt + 1]
        ELSE IF d = "mysql" /\ db = DbLockTimeout /\ attempt + 1 < 3
        THEN PutMessageSecretTry(d, outcomes, attempt + 1)
        ELSE [err |-> WrapErr(db, db), attempts |-> attempt + 1]

PutMessageSecret(chat, sender, id, secret, outcomes) ==
    /\ ms.pc = "idle"
    /\ LET res == PutMessageSecretTry(dialect, outcomes, 0)
           insert == [Chat |-> chat, Sender |-> sender, ID |-> id, Secret |-> secret]
       IN  /\ msgSecrets' = IF res.err = NilErr
                            THEN putMsgSecret(msgSecrets, MsRow(insert))
                            ELSE msgSecrets
           /\ ms' = [MsIdle EXCEPT !.pc = "done", !.op = "PutMessageSecret",
                                   !.inserts = <<insert>>,
                                   !.hist = SubSeq(outcomes, 1, res.attempts),
                                   !.before = msgSecrets, !.chunkBefore = msgSecrets,
                                   !.err = res.err]
    /\ UNCHANGED msOther

\* The caller goes on after the call returned.
MsDone ==
    /\ ms.pc = "done"
    /\ ms' = MsIdle
    /\ UNCHANGED <<msOther, msgSecrets>>

\* SELECT key FROM whatsmeow_message_secrets WHERE ...: the secret, or "" (no row).
GetMessageSecret(rows, chat, sender, id) ==
    LET hit == {r \in rows : /\ r.chat_jid = JIDString(ToNonAD(chat))
                             /\ r.sender_jid = JIDString(ToNonAD(sender))
                             /\ r.message_id = id}
    IN  IF hit = {} THEN "" ELSE (CHOOSE r \in hit : TRUE).key

MsInit ==
    /\ msgSecrets = {}
    /\ ms = MsIdle

MsBatchNext ==
    \/ /\ ms.pc = "idle"
       /\ \E inserts \in SmallBatches \cup BulkBatches : MsCall(inserts)
    \/ /\ ms.pc = "attempt"
       /\ \E outcome \in MsOutcomes(Len(ms.inserts)) : MsAttempt(outcome)
    \/ MsDone

MsNext ==
    \/ MsBatchNext
    \/ \E sender \in MsSenders, secret \in Secrets, outcomes \in [1..3 -> DbOutcomes] :
            PutMessageSecret(MsChat, sender, 1, secret, outcomes)

(***************************************************************************)
(* Transactions and chunked batches                                        *)
(***************************************************************************)
\* tx.Rollback(): the table is as it was when the transaction began, whatever
\* the statements of the transaction had written.
Rollback_KeepsWrites(before, written) == written

Rollback(before, written) == before

\* mutations[i : i+size] when len(mutations) > i+size, mutations[i:] otherwise
\* (i is 0-based).
ChunkOf(seq, i, size) ==
    IF Len(seq) > i + size THEN SubSeq(seq, i + 1, i + size)
    ELSE SubSeq(seq, i + 1, Len(seq))

\* for i := 0; i < len(seq); i += size: the slices the loop makes, in order.
Chunks(seq, size) ==
    [j \in 1..((Len(seq) + size - 1) \div size) |-> ChunkOf(seq, (j - 1) * size, size)]

\* An error a statement of the back end returned, passed on as it is.
DbErr(kind) == [msg |-> kind, cause |-> kind, attempts |-> 0]
DuplicateKey == "duplicate key"

(***************************************************************************)
(* App-state mutation MACs                                                 *)
(***************************************************************************)
mutationBatchSize == 400
MaxMacChunks == 1

MacName == "regular"
MacVersions == {1, 2}
\* CHECK ( length(value_mac) = 32 ) of whatsmeow_app_state_mutation_macs
ValueMACLen == 32
AppStateMutationMAC(k) == [IndexMAC |-> k, ValueMAC |-> Bytes(ValueMACLen, "v")]

\* The MySQL schema declares value_mac LONGBLOB NOT NULL without the check.
MacValueCheck(d, valueMAC) == d = "mysql" \/ valueMAC.len = ValueMACLen

\* Batches of at most two mutations over two index MACs (a repeated index MAC
\* included), and batches of n mutations with the index MACs 1..n.
SmallMutations ==
    UNION {[1..n -> {AppStateMutationMAC(1), AppStateMutationMAC(2)}] : n \in 0..2}
MacLens == {mutationBatchSize} \cup {k * mutationBatchSize + 1 : k \in 1..MaxMacChunks}
BulkMutations == {[k \in 1..n |-> AppStateMutationMAC(k)] : n \in MacLens}

MacRow(name, version, m) ==
    [name |-> name, version |-> version, index_mac |-> m.IndexMAC, value_mac |-> m.ValueMAC]
MacKeys(rows) == {<<r.name, r.version, r.index_mac>> : r \in rows}

\* The rows of a slice that an INSERT cannot store: the row the back end rejects
\* (failAt, 0 for none), every row whose primary key (jid, name, version,
\* index_mac) is stored already or was inserted earlier in the slice, and
\* every row that fails the check on value_mac.
MacRejected(d, rows, name, version, mutations, failAt) ==
    LET n == Len(mutations)
        keys == MacKeys(rows)
        idx(k) == mutations[k].IndexMAC
        repeated == IF Cardinality({idx(k) : k \in 1..n}) = n THEN {}
                    ELSE {k \in 1..n : \E j \in 1..(k - 1) : idx(j) = idx(k)}
    IN  ({failAt} \cap (1..n))
            \cup {k \in 1..n : <<name, version, idx(k)>> \in keys}
            \cup repeated
            \cup {k \in 1..n : ~MacValueCheck(d, mutations[k].ValueMAC)}

CheckViolation == "check constraint"
MacErr(d, mutations, failAt, k) ==
    IF k = failAt THEN DbErr(DbOther)
    ELSE IF ~MacValueCheck(d, mutations[k].ValueMAC) THEN DbErr(CheckViolation)
    ELSE DbErr(DuplicateKey)

\* The placeholders putAppStateMutationMACs writes for n mutations, one tuple
\* for each (0 stands for a '?'): five question marks for mysql and sqlite3;
\* otherwise argsCount starts at 1, a tuple takes baseIndex+1 and baseIndex+2
\* with baseIndex the value of argsCount, and argsCount grows by two.
MacPlaceholders(d, n) ==
    IF d = "mysql" \/ d = "sqlite3" THEN [i \in 1..n |-> <<0, 0, 0, 0, 0>>]
    ELSE [i \in 1..n |->
             LET baseIndex == 1 + 2 * (i - 1) IN <<1, 2, 3, baseIndex + 1, baseIndex + 2>>]

\* The arguments passed with the statement of n mutations: five for each on
\* sqlite3 (and for each statement of mysql), otherwise s.JID, name and version
\* once and two for each mutation.
MacArguments(d, n) == IF d = "mysql" \/ d = "sqlite3" THEN 5 * n ELSE 3 + 2 * n

\* The arguments the statement takes: one for each '?', or the greatest
\* marker number.
MacParameters(d, n) ==
    LET ps == MacPlaceholders(d, n)
    IN  IF d = "mysql" \/ d = "sqlite3" THEN 5 * n
        ELSE Max({0} \cup UNION {{ps[i][j] : j \in 1..5} : i \in 1..n})

putAppStateMutationMACsQuery ==
    <<"INSERT INTO whatsmeow_app_state_mutation_macs (jid, name, version, index_mac, value_mac) VALUES">>

\* "(?, ?, ...)" or "($a, $b, ...)" for one tuple of placeholders
PlaceholderTuple(ns) == IF ns[1] = 0 THEN QuestionTuple(Len(ns)) ELSE MarkerTuple(ns)

\* The statement putAppStateMutationMACs executes: for each mutation on mysql,
\* for the n mutations of the slice otherwise.
putAppStateMutationMACsText(d, n) ==
    LET ps == MacPlaceholders(d, n)
    IN  IF d = "mysql" THEN putAppStateMutationMACsQuery \o QuestionTuple(5)
        ELSE putAppStateMutationMACsQuery
                \o Join([i \in 1..n |-> PlaceholderTuple(ps[i])], <<",">>)

\* putAppStateMutationMACs on one slice.  MySQL: one INSERT per mutation, in
\* order, stopping at the first that fails.  sqlite3 and PostgreSQL: a single
\* multi-row INSERT, which stores every row or none and fails when its
\* arguments are not as many as it takes.
putAppStateMutationMACs(d, rows, name, version, mutations, failAt) ==
    LET rejected == MacRejected(d, rows, name, version, mutations, failAt)
        first == Min(rejected)
        row(k) == MacRow(name, version, mutations[k])
    IN  IF MacParameters(d, Len(mutations)) # MacArguments(d, Len(mutations))
        THEN [rows |-> rows, err |-> DbErr("wrong number of arguments")]
        ELSE IF rejected = {}
        THEN [rows |-> rows \cup {row(k) : k \in 1..Len(mutations)}, err |-> NilErr]
        ELSE IF d = "mysql"
        THEN [rows |-> rows \cup {row(k) : k \in 1..(first - 1)},
              err |-> MacErr(d, mutations, failAt, first)]
        ELSE [rows |-> rows, err |-> MacErr(d, mutations, failAt, first)]

\* The loop of PutAppStateMutationMACs over the slices, inside the transaction:
\* it stops at the first slice whose write fails; i is the loop variable then.
RECURSIVE MacTxLoop(_, _, _, _, _, _, _)
MacTxLoop(d, written, name, version, mutations, i, failAt) ==
    IF i >= Len(mutations) THEN [rows |-> written, err |-> NilErr, i |-> i]
    ELSE LET mutationSlice == ChunkOf(mutations, i, mutationBatchSize)
             res == putAppStateMutationMACs(d, written, name, version, mutationSlice,
                                            IF failAt > i THEN failAt - i ELSE 0)
         IN  IF res.err # NilErr THEN [rows |-> res.rows, err |-> res.err, i |-> i]
             ELSE MacTxLoop(d, res.rows, name, version, mutations,
                            i + mutationBatchSize, failAt)

\* What the back end does to one call: nothing wrong, or Begin or Commit fails,
\* or it rejects the statement that carries the mutation at position `at`.
BulkOutcome(stage, at) == [stage |-> stage, at |-> at]
FailPoints(n, size) ==
    ({1, 2, n} \cup {k * size + 1 : k \in 1..(n \div size)}) \cap (1..n)
BulkOutcomes(n, size) ==
    {BulkOutcome("ok", 0)}
        \cup {BulkOutcome("exec", k) : k \in FailPoints(n, size)}
        \cup (IF n > size THEN {BulkOutcome("begin", 0), BulkOutcome("commit", 0)} ELSE {})

\* mm: pc "idle" or "done" (a call has just returned err); txs: the
\* transactions it began; i: its loop variable when the
\* loop ended; before: the table when it was called.
MmIdle == [pc |-> "idle", name |-> "", mutations |-> <<>>, version |-> 0,
           txs |-> 0, i |-> 0, before |-> {}, err |-> NilErr]

\* PutAppStateMutationMACs(name, version, mutations), from the call to its return.
PutAppStateMutationMACs(name, version, mutations, outcome) ==
    /\ mm.pc = "idle"
    /\ LET failAt == IF outcome.stage = "exec" THEN outcome.at ELSE 0
           res ==
             IF Len(mutations) > mutationBatchSize
             THEN IF outcome.stage = "begin"
                  THEN [rows |-> mutationMACs, i |-> 0,
                        err |-> WrapErr("failed to start transaction", DbOther)]
                  ELSE LET loop == MacTxLoop(dialect, mutationMACs, name, version,
                                             mutations, 0, failAt)
                       IN  IF loop.err # NilErr
                           THEN [loop EXCEPT !.rows = Rollback(mutationMACs, loop.rows)]
                           ELSE IF outcome.stage = "commit"
                           THEN [rows |-> mutationMACs, i |-> loop.i,
                                 err |-> WrapErr("failed to commit transaction", DbOther)]
                           ELSE loop
             ELSE IF Len(mutations) > 0
             THEN LET res == putAppStateMutationMACs(dialect, mutationMACs, name, version,
                                                     mutations, failAt)
                  IN  [rows |-> res.rows, err |-> res.err, i |-> 0]
             ELSE [rows |-> mutationMACs, err |-> NilErr, i |-> 0]
       IN  /\ mutationMACs' = res.rows
           /\ mm' = [pc |-> "done", name |-> name, mutations |-> mutations,
                     version |-> version,
                     txs |-> IF Len(mutations) > mutationBatchSize THEN 1 ELSE 0,
                     i |-> res.i, before |-> mutationMACs, err |-> res.err]
    /\ UNCHANGED mmOther

\* The caller goes on after the call returned.
MmDone ==
    /\ mm.pc = "done"
    /\ mm' = MmIdle
    /\ UNCHANGED <<mmOther, mutationMACs>>

MmInit ==
    /\ mutationMACs = {}
    /\ mm = MmIdle

\* Some caller calls PutAppStateMutationMACs with one of the batches.
MmCall(batches, versions) ==
    /\ mm.pc = "idle"
    /\ \E mutations \in batches, version \in versions :
         \E outcome \in BulkOutcomes(Len(mutations), mutationBatchSize) :
             PutAppStateMutationMACs(MacName, version, mutations, outcome)

MmNext ==
    \/ MmCall(SmallMutations \cup BulkMutations, MacVersions)
    \/ MmDone

(***************************************************************************)
(* Contacts                                                                *)
(***************************************************************************)
contactBatchSize == 300
MaxContactChunks == 1

\* A contact's JID is a number; EmptyJID is the JID whose IsEmpty() is true.
EmptyJID == 0
ContactEntry(jid, name) == [JID |-> jid, FirstName |-> name, FullName |-> name]

\* Batches of at most two entries (an empty JID and a repeated JID included),
\* and batches of n entries for the JIDs 1..n.
SmallContactEntries ==
    {ContactEntry(EmptyJID, "a"), ContactEntry(1, "a"), ContactEntry(1, "b"),
     ContactEntry(2, "a")}
SmallContacts == UNION {[1..n -> SmallContactEntries] : n \in 0..2}
ContactLens == {contactBatchSize} \cup {k * contactBatchSize + 1 : k \in 1..MaxContactChunks}
BulkContacts == {[k \in 1..n |-> ContactEntry(k, "b")] : n \in ContactLens}

\* A row of whatsmeow_contacts: the four name columns are nullable TEXT, Nil is
\* NULL.  ContactRow(c) is the row the bulk insert stores for a new contact.
NewContactRow(jid) ==
    [their_jid |-> jid, first_name |-> Nil, full_name |-> Nil,
     push_name |-> Nil, business_name |-> Nil]
ContactRow(c) ==
    [NewContactRow(c.JID) EXCEPT !.first_name = c.FirstName, !.full_name = c.FullName]

\* INSERT ... ON CONFLICT (our_jid, their_jid) DO UPDATE SET col=excluded.col
\* for the columns of set: the other columns of an existing row stay, those
\* of a new row are NULL.
ContactUpsert_ReplacesRow(rows, jid, set) ==
    LET new == NewContactRow(jid)
    IN  {r \in rows : r.their_jid # jid} \cup
            {[col \in DOMAIN new |-> IF col \in DOMAIN set THEN set[col] ELSE new[col]]}
ContactUpsert(rows, jid, set) ==
    LET hit == {r \in rows : r.their_jid = jid}
        old == IF hit = {} THEN NewContactRow(jid) ELSE CHOOSE r \in hit : TRUE
    IN  (rows \ hit) \cup
            {[col \in DOMAIN old |-> IF col \in DOMAIN set THEN set[col] ELSE old[col]]}

putContactNameQuery(rows, jid, first, full) ==
    ContactUpsert(rows, jid, [first_name |-> first, full_name |-> full])
\* An upsert of push_name that the table does not take.
putPushNameQuery_NoWrite(rows, jid, push) == rows

putPushNameQuery(rows, jid, push) ==
    ContactUpsert(rows, jid, [push_name |-> push])
putBusinessNameQuery(rows, jid, business) ==
    ContactUpsert(rows, jid, [business_name |-> business])

\* The multi-row upsert of first_name and full_name for the entries at the
\* indices handled, which carry pairwise distinct JIDs.
putManyContactNamesQuery(rows, entries, handled) ==
    LET jids == {entries[k].JID : k \in handled}
        hit == {r \in rows : r.their_jid \in jids}
        OldRow(jid) == CHOOSE r \in hit : r.their_jid = jid
    IN  (rows \ hit) \cup
            {IF hit = {} \/ entries[k].JID \notin {r.their_jid : r \in hit}
             THEN ContactRow(entries[k])
             ELSE [OldRow(entries[k].JID) EXCEPT !.first_name = entries[k].FirstName,
                                                 !.full_name = entries[k].FullName]
             : k \in handled}

\* putContactNamesBatch: the entries that get a VALUES tuple: those with a
\* non-empty JID that no earlier entry of the slice carries.
HandledContacts(entries) ==
    LET n == Len(entries)
        named == {k \in 1..n : entries[k].JID # EmptyJID}
    IN  IF Cardinality({entries[k].JID : k \in named}) = Cardinality(named) THEN named
        ELSE {k \in named : \A j \in 1..(k - 1) : entries[j].JID # entries[k].JID}

\* The placeholders of the statement and the arguments passed with it: the
\* "(?, ?, ?, ?)" tuples of sqlite3 and mysql take four arguments each, the
\* numbered tuples of PostgreSQL share $1; values holds s.JID once and three
\* values per tuple.
PlaceholderCount(d, tuples) ==
    IF d \in {"sqlite3", "mysql"} THEN 4 * tuples ELSE 1 + 3 * tuples
ValueCount(tuples) == 1 + 3 * tuples

\* putContactNamesBatch on one slice: a single multi-row upsert that sets
\* first_name and full_name.  It fails when the back end rejects it (fail), when
\* no entry is left (an empty VALUES list) and when the arguments do not match
\* the placeholders.
putContactNamesBatch(d, rows, entries, fail) ==
    LET handled == HandledContacts(entries)
    IN  IF handled = {} THEN [rows |-> rows, err |-> DbErr("syntax error")]
        ELSE IF PlaceholderCount(d, Cardinality(handled)) # ValueCount(Cardinality(handled))
        THEN [rows |-> rows, err |-> DbErr("wrong number of arguments")]
        ELSE IF fail THEN [rows |-> rows, err |-> DbErr(DbOther)]
        ELSE [rows |-> putManyContactNamesQuery(rows, entries, handled), err |-> NilErr]

\* The loop of PutAllContactNames over the slices, inside the transaction.
RECURSIVE ContactTxLoop(_, _, _, _, _)
ContactTxLoop(d, written, entries, i, failAt) ==
    IF i >= Len(entries) THEN [rows |-> written, err |-> NilErr, i |-> i]
    ELSE LET contactSlice == ChunkOf(entries, i, contactBatchSize)
             res == putContactNamesBatch(d, written, contactSlice,
                                         failAt > i /\ failAt <= i + contactBatchSize)
         IN  IF res.err # NilErr THEN [rows |-> res.rows, err |-> res.err, i |-> i]
             ELSE ContactTxLoop(d, res.rows, entries, i + contactBatchSize, failAt)

EmptyCache == <<>>
ContactInfo(found, first, full, push, business) ==
    [Found |-> found, FirstName |-> first, FullName |-> full,
     PushName |-> push, BusinessName |-> business]

\* sql.NullString.String: the empty string for NULL.
NullString(v) == IF v = Nil THEN "" ELSE v

\* The ContactInfo getContact and GetAllContacts build from a scanned row.
ScanContact(r) ==
    ContactInfo(TRUE, NullString(r.first_name), NullString(r.full_name),
                NullString(r.push_name), NullString(r.business_name))

\* SELECT first_name, full_name, push_name, business_name ... WHERE their_jid=$2,
\* scanned: Found is false and the names are empty when there is no row.
getContactQuery_FoundWithoutRow(rows, jid) ==
    LET hit == {r \in rows : r.their_jid = jid}
    IN  IF hit = {} THEN ContactInfo(TRUE, "", "", "", "")
        ELSE ScanContact(CHOOSE r \in hit : TRUE)
getContactQuery(rows, jid) ==
    LET hit == {r \in rows : r.their_jid = jid}
    IN  IF hit = {} THEN ContactInfo(FALSE, "", "", "", "")
        ELSE ScanContact(CHOOSE r \in hit : TRUE)

\* SELECT their_jid, first_name, ... of all rows, scanned into the output map.
getAllContactsQuery(rows) ==
    [jid \in {r.their_jid : r \in rows} |-> getContactQuery(rows, jid)]

\* m with the entries of upd stored over it.
CacheStore(m, upd) ==
    [u \in DOMAIN m \cup DOMAIN upd |-> IF u \in DOMAIN upd THEN upd[u] ELSE m[u]]

CtIdle == [pc |-> "idle", entries |-> <<>>, txs |-> 0, i |-> 0,
           before |-> {}, cacheBefore |-> EmptyCache, err |-> NilErr]
ClIdle == [pc |-> "idle"]

\* contactCacheLock is held by the call cl from its first statement to its
\* return.
contactCacheLock == IF cl.pc \in {"idle", "done"} THEN "free" ELSE "held"

\* PutAllContactNames(contacts) up to the point where it takes
\* contactCacheLock: the write, made without the lock.  A call with an empty
\* list or a failed write returns here.
PutAllContactNames(entries, outcome) ==
    /\ ct.pc = "idle"
    /\ LET failAt == IF outcome.stage = "exec" THEN outcome.at ELSE 0
           res ==
             IF Len(entries) > contactBatchSize
             THEN IF outcome.stage = "begin"
                  THEN [rows |-> contacts, i |-> 0,
                        err |-> WrapErr("failed to start transaction", DbOther)]
                  ELSE LET loop == ContactTxLoop(dialect, contacts, entries, 0, failAt)
                       IN  IF loop.err # NilErr
                           THEN [loop EXCEPT !.rows = Rollback(contacts, loop.rows)]
                           ELSE IF outcome.stage = "commit"
                           THEN [rows |-> contacts, i |-> loop.i,
                                 err |-> WrapErr("failed to commit transaction", DbOther)]
                           ELSE loop
             ELSE IF Len(entries) > 0
             THEN LET res == putContactNamesBatch(dialect, contacts, entries, failAt > 0)
                  IN  [rows |-> res.rows, err |-> res.err, i |-> 0]
             ELSE [rows |-> contacts, err |-> NilErr, i |-> 0]
       IN  /\ contacts' = res.rows
           /\ ct' = [pc |-> IF res.err = NilErr /\ Len(entries) > 0
                            THEN "clear" ELSE "done",
                     entries |-> entries,
                     txs |-> IF Len(entries) > contactBatchSize THEN 1 ELSE 0,
                     i |-> res.i, before |-> contacts, cacheBefore |-> contactCache,
                     err |-> res.err]
    /\ UNCHANGED <<ctOther, contactCache, cl>>

\* The end of a successful PutAllContactNames: with the lock taken, the cache
\* becomes a new empty map, and the call returns.
ClearContactCache_KeepsCache(cache) == cache
ClearContactCache(cache) == EmptyCache

PutAllContactNamesClear ==
    /\ ct.pc = "clear"
    /\ contactCacheLock = "free"
    /\ contactCache' = ClearContactCache(contactCache)
    /\ ct' = [ct EXCEPT !.pc = "done"]
    /\ UNCHANGED <<ctOther, contacts, cl>>

\* The caller goes on after PutAllContactNames returned.
CtDone ==
    /\ ct.pc = "done"
    /\ ct' = CtIdle
    /\ UNCHANGED <<ctOther, contacts, contactCache, cl>>

\* ---- the calls that run under contactCacheLock
PutNameCalls == {"PutPushName", "PutBusinessName", "PutContactName"}

\* A call takes the lock.  first and full are the arguments of PutContactName,
\* name the one of PutPushName and PutBusinessName.
ClLock(op, user, first, full, name) ==
    /\ cl.pc = "idle"
    /\ cl' = [pc |-> IF op = "GetAllContacts" THEN "query" ELSE "getContact",
              op |-> op, user |-> user, first |-> first, full |-> full, name |-> name,
              info |-> Nil, read |-> FALSE, wrote |-> FALSE,
              changed |-> FALSE, previous |-> "", ret |-> Nil, err |-> NilErr]
    /\ UNCHANGED <<ctOther, contacts, contactCache, ct>>

\* What the call does after getContact returned info without error.
AfterGetContact(c, info) ==
    IF c.op = "GetContact" THEN [c EXCEPT !.pc = "done", !.ret = info]
    ELSE [c EXCEPT !.pc = "compare"]

\* getContact(user) up to its database read: a cached info is returned without
\* a read; a failed read other than sql.ErrNoRows returns the error.
getContact(db) ==
    /\ cl.pc = "getContact"
    /\ IF cl.user \in DOMAIN contactCache
       THEN db = DbOK /\ cl' = AfterGetContact(cl, contactCache[cl.user])
       ELSE IF db # DbOK
       THEN cl' = [cl EXCEPT !.pc = "done", !.read = TRUE, !.err = DbErr(db)]
       ELSE cl' = [cl EXCEPT !.pc = "store", !.read = TRUE,
                             !.info = getContactQuery(contacts, cl.user)]
    /\ UNCHANGED <<ctOther, contacts, contactCache, ct>>

\* getContact stores the info it read in the cache and returns it.
getContactStore ==
    /\ cl.pc = "store"
    /\ contactCache' = CacheStore(contactCache, [u \in {cl.user} |-> cl.info])
    /\ cl' = AfterGetContact([cl EXCEPT !.info = Nil], cl.info)
    /\ UNCHANGED <<ctOther, contacts, ct>>

NameDiffers_Always(c, cached) == TRUE

\* The names the call was given differ from those of the cached info.
NameDiffers(c, cached) ==
    IF c.op = "PutPushName" THEN cached.PushName # c.name
    ELSE IF c.op = "PutBusinessName" THEN cached.BusinessName # c.name
    ELSE cached.FirstName # c.first \/ cached.FullName # c.full

\* PutPushName, PutBusinessName and PutContactName after getContact: when the
\* names differ from the cached ones the row is written, otherwise the call
\* returns (false, "", nil) at once.
PutNameWrite(db) ==
    /\ cl.pc = "compare"
    /\ LET cached == contactCache[cl.user] IN
       IF ~NameDiffers(cl, cached)
       THEN db = DbOK /\ cl' = [cl EXCEPT !.pc = "done"] /\ UNCHANGED contacts
       ELSE IF db # DbOK
       THEN cl' = [cl EXCEPT !.pc = "done", !.err = DbErr(db)] /\ UNCHANGED contacts
       ELSE /\ contacts' =
                 IF cl.op = "PutPushName"
                 THEN putPushNameQuery(contacts, cl.user, cl.name)
                 ELSE IF cl.op = "PutBusinessName"
                 THEN putBusinessNameQuery(contacts, cl.user, cl.name)
                 ELSE putContactNameQuery(contacts, cl.user, cl.first, cl.full)
            /\ cl' = [cl EXCEPT !.pc = "update", !.wrote = TRUE,
                         !.previous = IF cl.op = "PutPushName" THEN cached.PushName
                                      ELSE IF cl.op = "PutBusinessName"
                                      THEN cached.BusinessName ELSE ""]
    /\ UNCHANGED <<ctOther, contactCache, ct>>

\* After the write the cached info gets the new names and Found, and the call
\* returns (true, previousName, nil).
PutNameUpdate ==
    /\ cl.pc = "update"
    /\ LET cached == contactCache[cl.user]
           info == IF cl.op = "PutPushName"
                   THEN [cached EXCEPT !.PushName = cl.name, !.Found = TRUE]
                   ELSE IF cl.op = "PutBusinessName"
                   THEN [cached EXCEPT !.BusinessName = cl.name, !.Found = TRUE]
                   ELSE [cached EXCEPT !.FirstName = cl.first, !.FullName = cl.full,
                                       !.Found = TRUE]
       IN  contactCache' = CacheStore(contactCache, [u \in {cl.user} |-> info])
    /\ cl' = [cl EXCEPT !.pc = "done", !.changed = cl.op # "PutContactName"]
    /\ UNCHANGED <<ctOther, contacts, ct>>

\* GetAllContacts: the query, then every scanned row goes to the output map
\* and to the cache.
GetAllContactsQuery(db) ==
    /\ cl.pc = "query"
    /\ IF db # DbOK
       THEN cl' = [cl EXCEPT !.pc = "done", !.read = TRUE, !.err = DbErr(db)]
       ELSE cl' = [cl EXCEPT !.pc = "storeAll", !.read = TRUE,
                             !.info = getAllContactsQuery(contacts)]
    /\ UNCHANGED <<ctOther, contacts, contactCache, ct>>

GetAllContactsStore ==
    /\ cl.pc = "storeAll"
    /\ contactCache' = CacheStore(contactCache, cl.info)
    /\ cl' = [cl EXCEPT !.pc = "done", !.ret = cl.info, !.info = Nil]
    /\ UNCHANGED <<ctOther, contacts, ct>>

\* The call returned (the lock was released on return); its caller goes on.
ClDone ==
    /\ cl.pc = "done"
    /\ cl' = ClIdle
    /\ UNCHANGED <<ctOther, contacts, contactCache, ct>>

CtInit ==
    /\ contacts = {}
    /\ contactCache = EmptyCache
    /\ ct = CtIdle
    /\ cl = ClIdle

\* Some caller calls PutAllContactNames with one of the batches.
CtCall(batches) ==
    /\ ct.pc = "idle"
    /\ \E entries \in batches :
         \E outcome \in BulkOutcomes(Len(entries), contactBatchSize) :
             PutAllContactNames(entries, outcome)

\* The steps of a call under the lock, once it was made.
ClSteps ==
    \/ \E db \in {DbOK, DbOther} :
          \/ getContact(db)
          \/ PutNameWrite(db)
          \/ GetAllContactsQuery(db)
    \/ getContactStore
    \/ PutNameUpdate
    \/ GetAllContactsStore
    \/ ClDone

ContactUsers == {1, 2}
ContactNames == {"a", "b"}

\* Some caller makes one of the calls that run under the lock, for one of the
\* users and with one of the names.
ClCall(users, pushNames, businessNames, fullNames) ==
    \/ \E user \in users :
          \/ ClLock("GetContact", user, "", "", "")
          \/ \E name \in pushNames : ClLock("PutPushName", user, "", "", name)
          \/ \E name \in businessNames : ClLock("PutBusinessName", user, "", "", name)
          \/ \E name \in fullNames : ClLock("PutContactName", user, "a", name, "")
    \/ ClLock("GetAllContacts", EmptyJID, "", "", "")

\* Callers on one goroutine after another: the calls under the lock only.
ClNext ==
    \/ ClCall(ContactUsers, ContactNames, ContactNames, ContactNames)
    \/ ClSteps

\* The batches of the concurrent callers: an empty one, one for contact 1 and
\* one for the contacts 1 and 2.
ConcurrentContacts ==
    {<<>>, <<ContactEntry(1, "b")>>, <<ContactEntry(1, "a"), ContactEntry(2, "a")>>}

\* Callers on several goroutines: PutAllContactNames runs beside the calls
\* that hold the lock.
CtNext ==
    \/ CtCall(ConcurrentContacts)
    \/ PutAllContactNamesClear
    \/ CtDone
    \/ ClCall({1}, ContactNames, {"a"}, {"b"})
    \/ ClSteps

\* The two chunking writers, called one at a time with batches above their
\* chunk thresholds, and GetContact between the calls.
BulkNext ==
    \/ MmCall({m \in BulkMutations : Len(m) > mutationBatchSize}, {1})
    \/ MmDone
    \/ cl.pc = "idle" /\ CtCall({c \in BulkContacts : Len(c) > contactBatchSize})
    \/ PutAllContactNamesClear
    \/ CtDone
    \/ ct.pc = "idle" /\ ClLock("GetContact", 1, "", "", "")
    \/ \E db \in {DbOK, DbOther} : getContact(db)
    \/ getContactStore
    \/ ClDone

(***************************************************************************)
(* The schema: devices and the account-scoped tables                       *)
(***************************************************************************)
MaxRows == 3

DeviceTable == "whatsmeow_device"

\* The account-scoped tables and the migration that creates each.
TablesV1 ==
    {"whatsmeow_identity_keys", "whatsmeow_pre_keys", "whatsmeow_sessions",
     "whatsmeow_sender_keys", "whatsmeow_app_state_sync_keys",
     "whatsmeow_app_state_version", "whatsmeow_app_state_mutation_macs",
     "whatsmeow_contacts", "whatsmeow_chat_settings"}
TablesV3 == {"whatsmeow_message_secrets"}
TablesV4 == {"whatsmeow_privacy_tokens"}
AccountTables == TablesV1 \cup TablesV3 \cup TablesV4

NoForeignKey == "none"

\* The table that a table's FOREIGN KEY ... ON DELETE CASCADE references, as its
\* CREATE TABLE statement declares it (the same on every dialect).
ForeignKey(table) ==
    IF table = "whatsmeow_app_state_mutation_macs" THEN "whatsmeow_app_state_version"
    ELSE IF table \in TablesV1 \cup TablesV3 THEN DeviceTable
    ELSE NoForeignKey

\* Deleting a device row deletes the rows of a table when the chain of its
\* foreign keys leads to whatsmeow_device.
RECURSIVE CascadesFromDevice(_)
CascadesFromDevice(table) ==
    IF ForeignKey(table) = NoForeignKey THEN FALSE
    ELSE IF ForeignKey(table) = DeviceTable THEN TRUE
    ELSE CascadesFromDevice(ForeignKey(table))

DeviceJIDs == {"a", "b"}

\* The accounts with a row in the table a foreign key references.
ParentRows(table) ==
    IF ForeignKey(table) = DeviceTable THEN devices ELSE dbRows[ForeignKey(table)]

DvRowCount ==
    LET RECURSIVE Sum(_)
        Sum(ts) == IF ts = {} THEN 0
                   ELSE LET t == CHOOSE t \in ts : TRUE
                        IN  Cardinality(dbRows[t]) + Sum(ts \ {t})
    IN  Sum(AccountTables)

\* A row is inserted into whatsmeow_device for the account.
PutDevice(jid) ==
    /\ jid \notin devices
    /\ devices' = devices \cup {jid}
    /\ UNCHANGED <<dvOther, dbRows>>

\* A store of the account inserts a row keyed by its JID into one of its tables;
\* the back end rejects the row when the table's foreign key finds no parent
\* (foreign keys are enforced: Upgrade checks that they are enabled).
PutRow(table, jid) ==
    /\ jid \notin dbRows[table]
    /\ DvRowCount < MaxRows
    /\ ForeignKey(table) # NoForeignKey => jid \in ParentRows(table)
    /\ dbRows' = [dbRows EXCEPT ![table] = @ \cup {jid}]
    /\ UNCHANGED <<dvOther, devices>>

\* DELETE FROM whatsmeow_device WHERE jid=$1, with the cascades of the schema.
DeleteDevice(jid) ==
    /\ jid \in devices
    /\ devices' = devices \ {jid}
    /\ dbRows' = [t \in AccountTables |->
                    IF CascadesFromDevice(t) THEN dbRows[t] \ {jid} ELSE dbRows[t]]
    /\ UNCHANGED dvOther

DvInit ==
    /\ devices = {}
    /\ dbRows = [t \in AccountTables |-> {}]

DvNext ==
    \/ \E jid \in DeviceJIDs : PutDevice(jid)
    \/ \E table \in AccountTables, jid \in DeviceJIDs : PutRow(table, jid)
    \/ \E jid \in DeviceJIDs : DeleteDevice(jid)

(***************************************************************************)
(* Identity keys                                                           *)
(***************************************************************************)
\* A [32]byte key is a content.
IdentityLen == 32
IdentityKeys == {"k1", "k2"}

\* key[:] : the slice over the 32 bytes of a key.
SliceOf(key) == Bytes(IdentityLen, key)

\* Signal addresses are strings; a string is modelled as the sequence of its
\* characters, so that LIKE can look at them one by one.
Addresses == {<<"1">>, <<"_">>, <<"%">>, <<"1", ":", "2">>}

\* SQL's  s LIKE pattern : '_' matches any one character, '%' any run of
\* characters, every other character matches itself.
RECURSIVE Like(_, _)
Like(s, pattern) ==
    IF pattern = <<>> THEN s = <<>>
    ELSE IF Head(pattern) = "%"
         THEN \/ Like(s, Tail(pattern))
              \/ s # <<>> /\ Like(Tail(s), pattern)
    ELSE /\ s # <<>>
         /\ Head(pattern) = "_" \/ Head(pattern) = Head(s)
         /\ Like(Tail(s), Tail(pattern))

IdentityRow(their_id, identity) == [their_id |-> their_id, identity |-> identity]

\* CHECK ( length(identity) = 32 ) of whatsmeow_identity_keys: the MySQL
\* schema declares the column LONGBLOB NOT NULL without the check.
IdentityCheck(d, identity) == d = "mysql" \/ identity.len = IdentityLen

\* INSERT ... ON CONFLICT (our_jid, their_id) DO NOTHING, the statement
\* PutIdentity does not use.
putIdentityQuery_DoNothing(rows, their_id, identity) ==
    IF \E r \in rows : r.their_id = their_id THEN rows
    ELSE rows \cup {IdentityRow(their_id, identity)}

\* INSERT ... ON CONFLICT (our_jid, their_id) DO UPDATE SET
\* identity=excluded.identity (ON DUPLICATE KEY UPDATE on MySQL).
putIdentityQuery(rows, their_id, identity) ==
    {r \in rows : r.their_id # their_id} \cup {IdentityRow(their_id, identity)}

\* DELETE ... WHERE our_jid=$1 AND their_id LIKE $2
deleteAllIdentitiesQuery(rows, pattern) ==
    {r \in rows : ~Like(r.their_id, pattern)}

\* DELETE ... WHERE our_jid=$1 AND their_id=$2
deleteIdentityQuery(rows, their_id) ==
    {r \in rows : r.their_id # their_id}

\* SELECT identity ... WHERE our_jid=$1 AND their_id=$2
getIdentityQuery(rows, their_id) ==
    {r.identity : r \in {x \in rows : x.their_id = their_id}}

ErrInvalidLength == "database returned byte array with illegal length"

IdIdle == [pc |-> "idle"]

IdCalls == {"PutIdentity", "DeleteAllIdentities", "DeleteIdentity", "IsTrustedIdentity"}

IdReturn(op, address, key, before, trusted, err) ==
    idc' = [pc |-> "done", op |-> op, address |-> address, key |-> key,
            before |-> before, trusted |-> trusted, err |-> err]

PutIdentity(address, key, db) ==
    /\ idc.pc = "idle"
    /\ identities' = IF db = DbOK
                     THEN putIdentityQuery(identities, address, SliceOf(key))
                     ELSE identities
    /\ IdReturn("PutIdentity", address, key, identities, Nil,
                IF db = DbOK THEN Nil ELSE db)
    /\ UNCHANGED idOther

DeleteAllIdentities(phone, db) ==
    /\ idc.pc = "idle"
    /\ identities' = IF db = DbOK
                     THEN deleteAllIdentitiesQuery(identities, phone \o <<":", "%">>)
                     ELSE identities
    /\ IdReturn("DeleteAllIdentities", phone, Nil, identities, Nil,
                IF db = DbOK THEN Nil ELSE db)
    /\ UNCHANGED idOther

DeleteIdentity(address, db) ==
    /\ idc.pc = "idle"
    /\ identities' = IF db = DbOK
                     THEN deleteAllIdentitiesQuery(identities, address)
                     ELSE identities
    /\ IdReturn("DeleteIdentity", address, Nil, identities, Nil,
                IF db = DbOK THEN Nil ELSE db)
    /\ UNCHANGED idOther

\* The value IsTrustedIdentity returns: <<trusted, err>>.
IsTrusted(rows, address, key, db) ==
    LET found == getIdentityQuery(rows, address) IN
    IF db # DbOK THEN <<FALSE, db>>
    ELSE IF found = {} THEN <<TRUE, Nil>>
    ELSE LET existingIdentity == CHOOSE b \in found : TRUE IN
         IF existingIdentity.len # IdentityLen THEN <<FALSE, ErrInvalidLength>>
         ELSE <<existingIdentity.content = key, Nil>>

IsTrustedIdentity(address, key, db) ==
    /\ idc.pc = "idle"
    /\ LET ret == IsTrusted(identities, address, key, db) IN
       IdReturn("IsTrustedIdentity", address, key, identities, ret[1], ret[2])
    /\ UNCHANGED <<identities, idOther>>

\* Another client of the database stores an identity row with raw SQL; the
\* schema accepts what its CHECK allows.
RawIdentities == {Bytes(IdentityLen - 1, "k1")} \cup {SliceOf(k) : k \in IdentityKeys}

RawPutIdentity(address, identity) ==
    /\ idc.pc = "idle"
    /\ IdentityCheck(dialect, identity)
    /\ identities' = putIdentityQuery(identities, address, identity)
    /\ UNCHANGED <<idc, idOther>>

IdDone ==
    /\ idc.pc = "done"
    /\ idc' = IdIdle
    /\ UNCHANGED <<identities, idOther>>

IdInit ==
    /\ identities = {}
    /\ idc = IdIdle

IdNext ==
    \/ \E address \in Addresses, key \in IdentityKeys, db \in {DbOK, DbOther} :
          \/ PutIdentity(address, key, db)
          \/ IsTrustedIdentity(address, key, db)
    \/ \E address \in Addresses, db \in {DbOK, DbOther} :
          \/ DeleteAllIdentities(address, db)
          \/ DeleteIdentity(address, db)
    \/ \E address \in Addresses, identity \in RawIdentities :
          RawPutIdentity(address, identity)
    \/ IdDone

(***************************************************************************)
(* The schema migrations (upgrade.go)                                      *)
(***************************************************************************)
\* The tags a Container is built with: store.go tests "sqlite3" for the
\* embedded engine, Upgrade tests "sqlite".
ContainerDialects == Dialects \cup {"sqlite"}

\* strings.Contains(container.dialect, "postgres") || container.dialect == "pgx"
IsPostgres(d) == d = "postgres"

\* The statements of a migration, by the text that identifies them.
CreateTablesV1 == "CREATE TABLE whatsmeow_device, ..."
AddSigKey == "ALTER TABLE whatsmeow_device ADD COLUMN adv_account_sig_key"
DeleteNullSigKey == "DELETE FROM whatsmeow_device WHERE adv_account_sig_key IS NULL"
SigKeyNotNull == "ALTER TABLE whatsmeow_device MODIFY adv_account_sig_key BLOB NOT NULL"
CreateMessageSecrets == "CREATE TABLE whatsmeow_message_secrets"
CreatePrivacyTokens == "CREATE TABLE whatsmeow_privacy_tokens"
ReplaceJID == "UPDATE whatsmeow_device SET jid=REPLACE(jid, '.0', '')"
AddFacebookUUID == "ALTER TABLE whatsmeow_device ADD COLUMN facebook_uuid"
DisableForeignKeys == "SET FOREIGN_KEY_CHECKS = 0"
SetNames == "SET NAMES utf8mb4"
ConvertTables == "ALTER TABLE ... CHARACTER SET = utf8mb4"
ConvertColumns == "ALTER TABLE ... MODIFY ... CHARACTER SET utf8mb4"
EnableForeignKeys == "SET FOREIGN_KEY_CHECKS = 1"
DeleteVersion == "DELETE FROM whatsmeow_version"
InsertVersion == "INSERT INTO whatsmeow_version (version) VALUES (?)"

fillSigKeyPostgres == "fillSigKeyPostgres"
fillSigKeySQLite == "fillSigKeySQLite"
fillSigKeyMySQL == "fillSigKeyMySQL"

\* Each migration as the statements it executes on the transaction, in order.
upgradeV1(d) == <<CreateTablesV1>>
upgradeV2(d) ==
    IF IsPostgres(d) THEN <<AddSigKey, fillSigKeyPostgres>>
    ELSE IF d = "mysql" THEN <<AddSigKey, fillSigKeyMySQL, DeleteNullSigKey, SigKeyNotNull>>
    ELSE <<AddSigKey, fillSigKeySQLite>>
upgradeV3(d) == <<CreateMessageSecrets>>
upgradeV4(d) == <<CreatePrivacyTokens>>
upgradeV5(d) == <<ReplaceJID>>
upgradeV6(d) == <<AddFacebookUUID>>
upgradeV7(d) ==
    IF d = "mysql"
    THEN <<DisableForeignKeys, SetNames, ConvertTables, ConvertColumns, EnableForeignKeys>>
    ELSE <<>>

Upgrades(d) ==
    <<upgradeV1(d), upgradeV2(d), upgradeV3(d), upgradeV4(d), upgradeV5(d),
      upgradeV6(d), upgradeV7(d)>>

\* len(Upgrades)
Latest == 7

\* Columns and properties the migrations add to the schema.
SigKeyColumn == "whatsmeow_device.adv_account_sig_key"
SigKeyNotNullColumn == "whatsmeow_device.adv_account_sig_key NOT NULL"
FacebookUUIDColumn == "whatsmeow_device.facebook_uuid"
Utf8mb4 == "utf8mb4"

VersionTable == "whatsmeow_version"

\* A database: the version column of the rows of whatsmeow_version, the
\* tables and columns of the schema, and the rows of whatsmeow_device and of
\* whatsmeow_identity_keys that migration 2 reads.
EmptyDatabase == [version |-> {}, schema |-> {}, devices |-> {}, identities |-> {}]

\* Device JIDs as the first schema stores them: user, '.', agent.
UpJIDs == {<<"1", ".", "0">>, <<"2", ".", "0">>}
OtherPeer == <<"9", ":", "0">>

\* split_part(jid, '.', 1) and SUBSTRING_INDEX(jid, '.', 1): the text before
\* the first '.', the whole text when there is none.
RECURSIVE SplitPart(_)
SplitPart(s) ==
    IF s = <<>> \/ Head(s) = "." THEN <<>> ELSE <<Head(s)>> \o SplitPart(Tail(s))

\* instr(jid, '.'): the 1-based position of the first '.', 0 when none.
Instr(s) == IF \E i \in 1..Len(s) : s[i] = "." THEN Min({i \in 1..Len(s) : s[i] = "."}) ELSE 0

\* SQLite's substr(s, 0, n): position 0 lies before the first character, so
\* the result holds the first n-1 characters.
Substr0(s, n) == IF n <= 1 THEN <<>> ELSE SubSeq(s, 1, Min({n - 1, Len(s)}))

\* The their_id whose identity each fill statement reads for a device.
SelfPeer(d, jid) ==
    IF IsPostgres(d) \/ d = "mysql" THEN SplitPart(jid) \o <<":", "0">>
    ELSE Substr0(jid, Instr(jid)) \o <<":", "0">>

\* REPLACE(jid, '.0', '')
RECURSIVE Replace(_)
Replace(s) ==
    IF s = <<>> THEN <<>>
    ELSE IF Len(s) >= 2 /\ s[1] = "." /\ s[2] = "0" THEN Replace(Tail(Tail(s)))
    ELSE <<Head(s)>> \o Replace(Tail(s))

\* (SELECT identity FROM whatsmeow_identity_keys WHERE our_jid=jid AND
\* their_id=...): NULL when there is no such row.
SelfIdentity(d, v, jid) ==
    LET found == {r.identity : r \in {x \in v.identities :
                                        x.our_jid = jid /\ x.their_id = SelfPeer(d, jid)}}
    IN IF found = {} THEN Nil ELSE CHOOSE k \in found : TRUE

\* UPDATE whatsmeow_device SET adv_account_sig_key=(SELECT identity ...)
FillSigKey(d, v) ==
    [v EXCEPT !.devices = {[jid |-> r.jid, adv_account_sig_key |-> SelfIdentity(d, v, r.jid)] :
                             r \in v.devices}]

DeleteNull(v) == [v EXCEPT !.devices = {r \in v.devices : r.adv_account_sig_key # Nil}]

AddToSchema(v, names) == [v EXCEPT !.schema = v.schema \cup names]

Done(v, fk) == [view |-> v, fk |-> fk, err |-> Nil]
Failed(v, fk, msg) == [view |-> v, fk |-> fk, err |-> msg]

AlreadyExists == "already exists"
DuplicateColumn == "Duplicate column name"
NullViolation == "cannot be null"

\* CREATE TABLE (IF NOT EXISTS on MySQL)
CreateTables(d, v, fk, tables) ==
    IF d # "mysql" /\ tables \cap v.schema # {} THEN Failed(v, fk, AlreadyExists)
    ELSE Done(AddToSchema(v, tables), fk)

\* ALTER TABLE ... ADD COLUMN
AddColumn(v, fk, column) ==
    IF column \in v.schema THEN Failed(v, fk, DuplicateColumn)
    ELSE Done(AddToSchema(v, {column}), fk)

\* The UPDATE of a fill statement: it cannot store NULL in a NOT NULL column.
Fill(d, v, fk) ==
    IF SigKeyNotNullColumn \in v.schema
       /\ \E r \in FillSigKey(d, v).devices : r.adv_account_sig_key = Nil
    THEN Failed(v, fk, NullViolation)
    ELSE Done(FillSigKey(d, v), fk)

\* What a statement does to the database the transaction sees and to the
\* session's foreign-key setting when the back end executes it.
Exec(d, s, v, fk) ==
    CASE s = CreateTablesV1 -> CreateTables(d, v, fk, {DeviceTable} \cup TablesV1)
      [] s = AddSigKey -> AddColumn(v, fk, SigKeyColumn)
      [] s = fillSigKeyPostgres ->
            Done(AddToSchema(DeleteNull(FillSigKey(d, v)), {SigKeyNotNullColumn}), fk)
      [] s = fillSigKeySQLite -> Fill(d, v, fk)
      [] s = fillSigKeyMySQL -> Fill(d, v, fk)
      [] s = DeleteNullSigKey -> Done(DeleteNull(v), fk)
      [] s = SigKeyNotNull -> Done(AddToSchema(v, {SigKeyNotNullColumn}), fk)
      [] s = CreateMessageSecrets -> CreateTables(d, v, fk, TablesV3)
      [] s = CreatePrivacyTokens -> CreateTables(d, v, fk, TablesV4)
      [] s = ReplaceJID ->
            Done([v EXCEPT !.devices = {[r EXCEPT !.jid = Replace(r.jid)] : r \in v.devices},
                           !.identities = {[r EXCEPT !.our_jid = IF fk THEN Replace(r.our_jid)
                                                                  ELSE r.our_jid] :
                                             r \in v.identities}], fk)
      [] s = AddFacebookUUID -> AddColumn(v, fk, FacebookUUIDColumn)
      [] s = DisableForeignKeys -> Done(v, FALSE)
      [] s = SetNames -> Done(v, fk)
      [] s = ConvertTables -> Done(AddToSchema(v, {Utf8mb4}), fk)
      [] s = ConvertColumns -> Done(AddToSchema(v, {Utf8mb4}), fk)
      [] s = EnableForeignKeys -> Done(v, TRUE)
      [] s = DeleteVersion -> Done([v EXCEPT !.version = {}], fk)

\* CREATE TABLE and ALTER TABLE: statements that MySQL commits implicitly.
IsDDL(s) ==
    s \in {CreateTablesV1, AddSigKey, SigKeyNotNull, CreateMessageSecrets,
           CreatePrivacyTokens, AddFacebookUUID, ConvertTables, ConvertColumns}

\* sql.Tx: the database as the transaction sees it; auto is set once MySQL
\* has committed the transaction implicitly, after which every statement of
\* the session takes effect at once.
Begin(db) == [open |-> TRUE, view |-> db, auto |-> FALSE]
NoTx == [open |-> FALSE, view |-> EmptyDatabase, auto |-> FALSE]

CommitsAtOnce(d, tx, s) == d = "mysql" /\ (tx.auto \/ IsDDL(s))

\* The stored version as getVersion reads it from a database: 0 when the
\* table is missing or empty.
StoredVersions(db) == IF db.version = {} THEN {0} ELSE db.version

UpIdle == [pc |-> "idle"]

UpInit ==
    /\ foreignKeys = TRUE
    /\ database = EmptyDatabase
    /\ up = UpIdle

\* Container.Upgrade is called.
UpCall ==
    /\ up.pc = "idle"
    /\ up' = [pc |-> "check", version |-> 0, stmt |-> 0, tx |-> NoTx, err |-> NilErr,
              at |-> Nil, start |-> database, before |-> database, applied |-> <<>>,
              fk |-> foreignKeys]
    /\ UNCHANGED <<foreignKeys, database>>
    /\ UNCHANGED upOther

UpFail(at, err) == [up EXCEPT !.pc = "done", !.at = at, !.err = err]

\* The foreign-key check at the head of Upgrade.
UpCheckForeignKeys(db) ==
    /\ up.pc = "check"
    /\ IF dialect = "sqlite" \/ dialect = "mysql"
       THEN up' = IF db # DbOK
                  THEN UpFail("check", WrapErr("failed to check if foreign keys are enabled", db))
                  ELSE IF ~foreignKeys
                  THEN UpFail("check", WrapErr("foreign keys are not enabled", Nil))
                  ELSE [up EXCEPT !.pc = "getVersion"]
       ELSE /\ db = DbOK
            /\ up' = [up EXCEPT !.pc = "getVersion"]
    /\ UNCHANGED <<foreignKeys, database>>
    /\ UNCHANGED upOther

\* getVersion: CREATE TABLE IF NOT EXISTS whatsmeow_version, then the SELECT
\* whose Scan error is discarded (version stays 0).
getVersion(create, query) ==
    /\ up.pc = "getVersion"
    /\ IF create # DbOK
       THEN /\ query = DbOK
            /\ up' = UpFail("getVersion", DbErr(create))
            /\ UNCHANGED database
       ELSE /\ database' = AddToSchema(database, {VersionTable})
            /\ \E v \in StoredVersions(database) :
                  up' = [up EXCEPT !.pc = "loop",
                                   !.version = IF query = DbOK THEN v ELSE 0]
    /\ UNCHANGED foreignKeys
    /\ UNCHANGED upOther

\* The head of the loop: return nil when version has reached len(Upgrades),
\* c.db.Begin() otherwise.
UpBegin(db) ==
    /\ up.pc = "loop"
    /\ IF up.version >= Latest
       THEN /\ db = DbOK
            /\ up' = [up EXCEPT !.pc = "done"]
       ELSE up' = IF db # DbOK THEN UpFail("begin", DbErr(db))
                  ELSE [up EXCEPT !.pc = IF Upgrades(dialect)[up.version + 1] = <<>>
                                         THEN "setVersion" ELSE "migrate",
                                  !.stmt = 1, !.tx = Begin(database),
                                  !.before = database,
                                  !.applied = IF Upgrades(dialect)[up.version + 1] = <<>>
                                              THEN Append(@, up.version + 1) ELSE @]
    /\ UNCHANGED <<foreignKeys, database>>
    /\ UNCHANGED upOther

\* tx.Exec of statement s: the outcome of the statement, the transaction and
\* the committed database after it.
TxExec(s, db) ==
    LET r == IF db = DbOK THEN Exec(dialect, s, up.tx.view, foreignKeys)
             ELSE Failed(up.tx.view, foreignKeys, db)
        now == r.err = Nil /\ CommitsAtOnce(dialect, up.tx, s)
    IN [err |-> r.err, fk |-> r.fk,
        tx |-> [open |-> TRUE, view |-> r.view, auto |-> up.tx.auto \/ now],
        database |-> IF now THEN r.view ELSE database]

\* The message upgradeV7 wraps the error of each of its statements in.
upgradeV7Err(s) ==
    CASE s = DisableForeignKeys -> "failed to disable foreign key checks"
      [] s = SetNames -> "failed to set default character set"
      [] s = ConvertTables -> "failed to convert %s table to utf8mb4"
      [] s = ConvertColumns -> "failed to modify %s.%s column to utf8mb4"
      [] s = EnableForeignKeys -> "failed to re-enable foreign key checks"

\* migrateFunc(tx, c), one statement at a time; on an error Upgrade rolls the
\* transaction back and returns the error as it is.
UpMigrate(db) ==
    /\ up.pc = "migrate"
    /\ LET n == up.version + 1
           stmts == Upgrades(dialect)[n]
           s == stmts[up.stmt]
           r == TxExec(s, db)
           tolerated == n = 2 /\ up.stmt = 1 /\ dialect = "mysql" /\ r.err = DuplicateColumn
           wrapped == IF n = 7 THEN WrapErr(upgradeV7Err(s), r.err) ELSE DbErr(r.err)
       IN /\ foreignKeys' = r.fk
          /\ database' = r.database
          /\ IF r.err = Nil \/ tolerated
             THEN up' = IF up.stmt = Len(stmts)
                        THEN [up EXCEPT !.pc = "setVersion", !.tx = r.tx, !.stmt = 1,
                                        !.applied = Append(@, n)]
                        ELSE [up EXCEPT !.tx = r.tx, !.stmt = @ + 1]
             ELSE IF n = 7 /\ up.stmt \in 2..4
             THEN up' = [up EXCEPT !.pc = "reenable", !.err = wrapped, !.at = "step"]
             ELSE up' = [UpFail("step", wrapped) EXCEPT !.tx = NoTx]
    /\ UNCHANGED upOther

\* _, _ = tx.Exec("SET FOREIGN_KEY_CHECKS = 1") on the failure paths of
\* upgradeV7, its own error discarded; then Upgrade rolls back and returns.
UpReenable(db) ==
    /\ up.pc = "reenable"
    /\ foreignKeys' = TxExec(EnableForeignKeys, db).fk
    /\ up' = [up EXCEPT !.pc = "done", !.tx = NoTx]
    /\ UNCHANGED database
    /\ UNCHANGED upOther

\* setVersion(tx, version+1): DELETE, then INSERT; Upgrade returns its error
\* without rolling back.
setVersion(db) ==
    /\ up.pc = "setVersion"
    /\ LET s == IF up.stmt = 1 THEN DeleteVersion ELSE InsertVersion
           ins == [up.tx.view EXCEPT !.version = @ \cup {up.version + 1}]
           now == CommitsAtOnce(dialect, up.tx, s)
           view == IF s = DeleteVersion THEN Exec(dialect, s, up.tx.view, foreignKeys).view
                   ELSE ins
       IN IF db # DbOK
          THEN /\ up' = UpFail("setVersion", DbErr(db))
               /\ UNCHANGED database
          ELSE /\ database' = IF now THEN view ELSE database
               /\ up' = [up EXCEPT !.tx = [@ EXCEPT !.view = view],
                                   !.stmt = 2,
                                   !.pc = IF s = InsertVersion THEN "commit" ELSE @]
    /\ UNCHANGED foreignKeys
    /\ UNCHANGED upOther

\* tx.Commit(): the transaction ends either way; Upgrade returns its error.
UpCommit(db) ==
    /\ up.pc = "commit"
    /\ IF db # DbOK
       THEN /\ up' = [UpFail("commit", DbErr(db)) EXCEPT !.tx = NoTx]
            /\ UNCHANGED database
       ELSE /\ database' = up.tx.view
            /\ up' = [up EXCEPT !.pc = "loop", !.tx = NoTx, !.version = @ + 1]
    /\ UNCHANGED foreignKeys
    /\ UNCHANGED upOther

\* The caller has taken the result of Upgrade; a transaction the call left
\* open ends with its connection.
UpDone ==
    /\ up.pc = "done"
    /\ up' = UpIdle
    /\ UNCHANGED <<foreignKeys, database>>
    /\ UNCHANGED upOther

\* The session is opened with foreign keys on or off (PRAGMA foreign_keys,
\* @@foreign_key_checks).
SetForeignKeys(on) ==
    /\ up.pc = "idle"
    /\ dialect # "postgres"
    /\ foreignKeys # on
    /\ foreignKeys' = on
    /\ UNCHANGED <<database, up>>
    /\ UNCHANGED upOther

\* Rows written while the schema is at version 1: a device and the
\* identities stored for it.
UpPutDevice(jid) ==
    /\ up.pc = "idle"
    /\ database.version = {1}
    /\ SigKeyColumn \notin database.schema
    /\ \A r \in database.devices : r.jid # jid
    /\ database' = [database EXCEPT
                      !.devices = @ \cup {[jid |-> jid, adv_account_sig_key |-> Nil]}]
    /\ UNCHANGED <<foreignKeys, up>>
    /\ UNCHANGED upOther

UpPutIdentity(jid, their_id, key) ==
    /\ up.pc = "idle"
    /\ database.version = {1}
    /\ SigKeyColumn \notin database.schema
    /\ \E r \in database.devices : r.jid = jid
    /\ \A r \in database.identities : ~(r.our_jid = jid /\ r.their_id = their_id)
    /\ database' = [database EXCEPT
                      !.identities = @ \cup {[our_jid |-> jid, their_id |-> their_id,
                                               identity |-> key]}]
    /\ UNCHANGED <<foreignKeys, up>>
    /\ UNCHANGED upOther

UpFailures == {DbOK, DbOther}

UpNext ==
    \/ UpCall
    \/ \E db \in UpFailures : UpCheckForeignKeys(db)
    \/ \E create, query \in UpFailures : getVersion(create, query)
    \/ \E db \in UpFailures : UpBegin(db)
    \/ \E db \in UpFailures : UpMigrate(db)
    \/ \E db \in UpFailures : UpReenable(db)
    \/ \E db \in UpFailures : setVersion(db)
    \/ \E db \in UpFailures : UpCommit(db)
    \/ UpDone
    \/ \E on \in BOOLEAN : SetForeignKeys(on)
    \/ \E jid \in UpJIDs : UpPutDevice(jid)
    \/ UpPutIdentity(<<"1", ".", "0">>, <<"1", ":", "0">>, "k1")
    \/ UpPutIdentity(<<"2", ".", "0">>, OtherPeer, "k2")

(***************************************************************************)
(* Reads: the Get* and Has* operations                                     *)
(***************************************************************************)
ErrNoRows == "sql: no rows in result set"

\* len(uncheckedHash) != 128
HashLen == 128

RdOps ==
    {"GetSession", "HasSession", "GetSenderKey", "GetMessageSecret",
     "GetAppStateMutationMAC", "GetPreKey", "GetAppStateSyncKey",
     "GetLatestAppStateSyncKeyID", "GetPrivacyToken", "GetAppStateVersion",
     "GetChatSettings"}

\* The table each operation selects from.
TableOf(op) ==
    CASE op \in {"GetSession", "HasSession"} -> "whatsmeow_sessions"
      [] op = "GetSenderKey" -> "whatsmeow_sender_keys"
      [] op = "GetMessageSecret" -> "whatsmeow_message_secrets"
      [] op = "GetAppStateMutationMAC" -> "whatsmeow_app_state_mutation_macs"
      [] op = "GetPreKey" -> "whatsmeow_pre_keys"
      [] op \in {"GetAppStateSyncKey", "GetLatestAppStateSyncKeyID"} ->
            "whatsmeow_app_state_sync_keys"
      [] op = "GetPrivacyToken" -> "whatsmeow_privacy_tokens"
      [] op = "GetAppStateVersion" -> "whatsmeow_app_state_version"
      [] op = "GetChatSettings" -> "whatsmeow_chat_settings"

\* The length an operation requires of the blob it scanned (0: none).
CheckedLen(op) ==
    CASE op = "GetPreKey" -> PreKeyLen
      [] op = "GetAppStateVersion" -> HashLen
      [] OTHER -> 0

NilSlice == Bytes(0, "")
NilPointer == [nil |-> TRUE]

\* What each operation returns beside a non-nil error or for no row: the
\* zero value of its result.
ZeroValue(op) ==
    CASE op = "HasSession" -> [has |-> FALSE]
      [] op \in {"GetPreKey", "GetAppStateSyncKey", "GetPrivacyToken"} -> NilPointer
      [] op = "GetAppStateVersion" -> [version |-> 0, hash |-> Bytes(HashLen, "zero")]
      [] op = "GetChatSettings" ->
            [Found |-> FALSE, MutedUntil |-> 0, Pinned |-> FALSE, Archived |-> FALSE]
      [] OTHER -> NilSlice

\* What each operation returns for the row it scanned.
ScannedValue(op, row) ==
    CASE op = "HasSession" -> [has |-> TRUE]
      [] op = "GetAppStateVersion" -> [version |-> row.version, hash |-> row.value]
      [] op = "GetChatSettings" ->
            [Found |-> TRUE, MutedUntil |-> 0, Pinned |-> FALSE, Archived |-> FALSE]
      [] OTHER -> row.value

\* row.Scan on the result of QueryRow: the error of the back end when the
\* query failed, sql.ErrNoRows when it selected no row.
Scan(rows, db) == IF db # DbOK THEN db ELSE IF rows = {} THEN ErrNoRows ELSE Nil

\* A handling of the scan error that passes sql.ErrNoRows on to the caller.
NoRowsIsNil_Kept(err) == err

\* if errors.Is(err, sql.ErrNoRows) { err = nil }
NoRowsIsNil(err) == IF err = ErrNoRows THEN Nil ELSE err

\* One Get / Has operation on the rows its WHERE clause matches (LIMIT 1
\* after ORDER BY version DESC where the statement has it).
Read(op, rows, db) ==
    LET scanErr == Scan(rows, db)
        row == CHOOSE r \in rows : \A x \in rows : x.version <= r.version
    IN  IF scanErr # Nil
        THEN [value |-> ZeroValue(op), err |-> NoRowsIsNil(scanErr)]
        ELSE IF CheckedLen(op) # 0 /\ row.value.len # CheckedLen(op)
        THEN [value |-> ZeroValue(op), err |-> ErrInvalidLength]
        ELSE [value |-> ScannedValue(op, row), err |-> Nil]

RdIdle == [pc |-> "idle"]

RdReturn(op, jid, rows, db) ==
    [pc |-> "done", op |-> op, jid |-> jid, rows |-> rows, db |-> db,
     value |-> Read(op, rows, db).value, err |-> Read(op, rows, db).err]

\* The row an account has in a table of the schema, as the operation's
\* query selects it.
StoredRows(op, jid) ==
    IF jid \in dbRows[TableOf(op)]
    THEN {[version |-> 1,
           value |-> Bytes(IF CheckedLen(op) # 0 THEN CheckedLen(op) ELSE 3, "s")]}
    ELSE {}

\* The store of account jid calls one of the Get / Has operations.
RdCall(op, jid, db) ==
    /\ rd.pc = "idle"
    /\ rd' = RdReturn(op, jid, StoredRows(op, jid), db)
    /\ UNCHANGED rdOther

\* SELECT value_mac ... WHERE jid=$1 AND name=$2 AND index_mac=$3
getAppStateMutationMACQuery(rows, name, indexMAC) ==
    {[version |-> r.version, value |-> r.value_mac] :
        r \in {x \in rows : x.name = name /\ x.index_mac = indexMAC}}

GetAppStateMutationMAC(name, indexMAC, db) ==
    /\ rd.pc = "idle"
    /\ mm.pc = "idle"
    /\ rd' = RdReturn("GetAppStateMutationMAC", Nil,
                      getAppStateMutationMACQuery(mutationMACs, name, indexMAC), db)
    /\ UNCHANGED rdOther

\* The caller goes on after the call returned.
RdDone ==
    /\ rd.pc = "done"
    /\ rd' = RdIdle
    /\ UNCHANGED rdOther

RdInit == rd = RdIdle

RdFailures == {DbOK, DbOther}

\* Reads of the two accounts while devices and their rows come and go.
RdNext ==
    \/ rd.pc = "idle" /\ DvNext
    \/ \E op \in RdOps, jid \in DeviceJIDs, db \in RdFailures : RdCall(op, jid, db)
    \/ RdDone

\* Mutation MACs of either length are written and read back.
ShortMutationMAC(k) == [IndexMAC |-> k, ValueMAC |-> Bytes(ValueMACLen - 1, "v")]
ReadMutations ==
    UNION {[1..n -> {AppStateMutationMAC(1), ShortMutationMAC(1), ShortMutationMAC(2)}] :
             n \in 1..2}

MacReadNext ==
    \/ rd.pc = "idle" /\ MmCall(ReadMutations, MacVersions)
    \/ MmDone
    \/ \E indexMAC \in {1, 2}, db \in RdFailures : GetAppStateMutationMAC(MacName, indexMAC, db)
    \/ RdDone

(***************************************************************************)
(* The overwriting families: sessions, sender keys, app-state versions and *)
(* privacy tokens                                                          *)
(***************************************************************************)
MaxStored == 2
MaxTokens == 3

Sessions == "whatsmeow_sessions"
SenderKeys == "whatsmeow_sender_keys"
AppStateVersion == "whatsmeow_app_state_version"
PrivacyTokens == "whatsmeow_privacy_tokens"
KvTables == {Sessions, SenderKeys, AppStateVersion, PrivacyTokens}

\* The accounts whose stores share the database.
KvJIDs == {"a", "b"}
KvKeys == {"k1", "k2"}
KvContents == {"x", "y"}

\* The columns after the key of each table's PRIMARY KEY.
KvWidth(table) == IF table = Sessions THEN 3 ELSE 4

\* The row a VALUES tuple gives, from the arguments bound to it.
KvRow(table, b) ==
    CASE table = Sessions ->
            [jid |-> b[1], key |-> b[2], version |-> 0, value |-> b[3]]
      [] table = SenderKeys ->
            [jid |-> b[1], key |-> <<b[2], b[3]>>, version |-> 0, value |-> b[4]]
      [] table = AppStateVersion ->
            [jid |-> b[1], key |-> b[2], version |-> b[3], value |-> b[4]]
      [] table = PrivacyTokens ->
            [jid |-> b[1], key |-> b[2], version |-> 0,
             value |-> [token |-> b[3], timestamp |-> b[4]]]

KvSameKey(r1, r2) == r1.jid = r2.jid /\ r1.key = r2.key

SyntaxError == "syntax error"
CardinalityViolation == "ON CONFLICT DO UPDATE command cannot affect row a second time"

\* INSERT INTO table (...) VALUES (...), (...) ON CONFLICT (key) DO UPDATE SET
\* value=excluded.value (ON DUPLICATE KEY UPDATE on MySQL) with its arguments:
\* the rows afterwards and the error.  PostgreSQL refuses a statement that
\* names one key twice; the other engines take the tuples one after another.
KvUpsert(e, table, rows, st, args) ==
    IF ~Prepares(st, args) THEN [rows |-> rows, err |-> ArgumentCount]
    ELSE LET b == Bound(st, args)
             w == KvWidth(table)
             n == Len(b) \div w
             new(i) == KvRow(table, SubSeq(b, (i - 1) * w + 1, i * w))
         IN  IF n = 0 THEN [rows |-> rows, err |-> SyntaxError]
             ELSE IF e = "postgres" /\ \E i, j \in 1..n : i < j /\ KvSameKey(new(i), new(j))
             THEN [rows |-> rows, err |-> CardinalityViolation]
             ELSE [rows |-> {r \in rows : \A i \in 1..n : ~KvSameKey(r, new(i))}
                              \cup {new(i) : i \in {k \in 1..n :
                                        \A j \in (k + 1)..n : ~KvSameKey(new(k), new(j))}},
                   err |-> Nil]

\* SELECT ... FROM table WHERE jid=$1 AND key=$2 with the arguments bound.
KvSelect(table, rows, b) ==
    {[version |-> r.version, value |-> r.value] :
        r \in {x \in rows : x.jid = b[1] /\
                  x.key = IF table = SenderKeys THEN <<b[2], b[3]>> ELSE b[2]}}

putSessionQuery ==
    <<"INSERT INTO whatsmeow_sessions (our_jid, their_id, session) VALUES">>
        \o MarkerTuple(<<1, 2, 3>>)
        \o <<"ON CONFLICT (our_jid, their_id) DO UPDATE SET session=excluded.session">>
getSessionQuery ==
    <<"SELECT session FROM whatsmeow_sessions WHERE">> \o WhereMarkers(2)

\* The statement PutSession executes: written out with ? for mysql and
\* sqlite3, putSessionQuery as it is otherwise.
PutSessionText(d) ==
    IF d = "mysql"
    THEN <<"INSERT INTO whatsmeow_sessions (our_jid, their_id, session) VALUES">>
            \o QuestionTuple(3) \o <<"ON DUPLICATE KEY UPDATE session=VALUES(session)">>
    ELSE IF d = "sqlite3"
    THEN <<"INSERT INTO whatsmeow_sessions (our_jid, their_id, session) VALUES">>
            \o QuestionTuple(3)
            \o <<"ON CONFLICT (our_jid, their_id) DO UPDATE SET session=excluded.session">>
    ELSE putSessionQuery

PutSessionStatement == [d \in ContainerDialects |-> Statement(d, PutSessionText(d))]
GetSessionStatement == [d \in ContainerDialects |-> Statement(d, dialectQuery(d, getSessionQuery))]

getSenderKeyQueryGeneric ==
    <<"SELECT sender_key FROM whatsmeow_sender_keys WHERE">> \o WhereMarkers(3)
getSenderKeyQueryMySQL ==
    <<"SELECT sender_key FROM whatsmeow_sender_keys WHERE">>
        \o Join([i \in 1..3 |-> <<"?">>], <<"AND">>)
putSenderKeyQuery ==
    <<"INSERT INTO whatsmeow_sender_keys (our_jid, chat_id, sender_id, sender_key) VALUES">>
        \o MarkerTuple(<<1, 2, 3, 4>>)
        \o <<"ON CONFLICT (our_jid, chat_id, sender_id) DO UPDATE SET sender_key=excluded.sender_key">>

PutSenderKeyText(d) ==
    IF d = "mysql"
    THEN <<"INSERT INTO whatsmeow_sender_keys (our_jid, chat_id, sender_id, sender_key) VALUES">>
            \o QuestionTuple(4) \o <<"ON DUPLICATE KEY UPDATE sender_key=VALUES(sender_key)">>
    ELSE dialectQuery(d, putSenderKeyQuery)

GetSenderKeyText(d) ==
    IF d = "mysql" THEN getSenderKeyQueryMySQL ELSE dialectQuery(d, getSenderKeyQueryGeneric)

PutSenderKeyStatement == [d \in ContainerDialects |-> Statement(d, PutSenderKeyText(d))]
GetSenderKeyStatement == [d \in ContainerDialects |-> Statement(d, GetSenderKeyText(d))]

putAppStateVersionQuery ==
    <<"INSERT INTO whatsmeow_app_state_version (jid, name, version, hash) VALUES">>
        \o MarkerTuple(<<1, 2, 3, 4>>)
        \o <<"ON CONFLICT (jid, name) DO UPDATE SET version=excluded.version, hash=excluded.hash">>
getAppStateVersionQuery ==
    <<"SELECT version, hash FROM whatsmeow_app_state_version WHERE">> \o WhereMarkers(2)

PutAppStateVersionStatement ==
    [d \in ContainerDialects |-> Statement(d, dialectQuery(d, putAppStateVersionQuery))]
GetAppStateVersionStatement ==
    [d \in ContainerDialects |-> Statement(d, dialectQuery(d, getAppStateVersionQuery))]

putPrivacyTokens ==
    <<"INSERT INTO whatsmeow_privacy_tokens (our_jid, their_jid, token, timestamp) VALUES">>
        \o MarkerTuple(<<1, 2, 3, 4>>)
        \o <<"ON CONFLICT (our_jid, their_jid) DO UPDATE SET token=EXCLUDED.token, timestamp=EXCLUDED.timestamp">>
getPrivacyToken ==
    <<"SELECT token, timestamp FROM whatsmeow_privacy_tokens WHERE">> \o WhereMarkers(2)

\* strings.ReplaceAll(putPrivacyTokens, "($1, $2, $3, $4)", strings.Join(placeholders, ","))
\* with placeholders[i] = "($1, $3i+2, $3i+3, $3i+4)" for i = 0..n-1
PutPrivacyTokensQuery(n) ==
    <<putPrivacyTokens[1]>>
        \o Join([k \in 1..n |-> MarkerTuple(<<1, (k - 1) * 3 + 2, (k - 1) * 3 + 3, (k - 1) * 3 + 4>>)],
                <<",">>)
        \o <<putPrivacyTokens[Len(putPrivacyTokens)]>>

\* The statements PutPrivacyTokens and GetPrivacyToken execute: one per token
\* on MySQL, one for the n tokens of the call otherwise.
PutPrivacyTokenMySQL ==
    Statement("mysql",
        <<"INSERT INTO whatsmeow_privacy_tokens (our_jid, their_jid, token, timestamp) VALUES">>
            \o QuestionTuple(4)
            \o <<"ON DUPLICATE KEY UPDATE token=VALUES(token), timestamp=VALUES(timestamp)">>)
PutPrivacyTokensStatement ==
    [d \in ContainerDialects |->
        [n \in 0..MaxTokens |-> Statement(d, dialectQuery(d, PutPrivacyTokensQuery(n)))]]
GetPrivacyTokenStatement ==
    [d \in ContainerDialects |-> Statement(d, dialectQuery(d, getPrivacyToken))]

\* time.Time as seconds and nanoseconds; t.Unix() and time.Unix(ts, 0)
Time(sec, nsec) == [sec |-> sec, nsec |-> nsec]
Unix(t) == t.sec
TimeUnix(ts) == Time(ts, 0)

\* store.PrivacyToken values; the user is already without device part.
PrivacyToken(user, token, t) == [User |-> user, Token |-> token, Timestamp |-> t]
TokenArgs(t) == <<t.User, t.Token, Unix(t.Timestamp)>>

\* args[0] = s.JID; args[i*3+1..i*3+3] = user, token, timestamp of token i
RECURSIVE PutPrivacyTokensArgs(_)
PutPrivacyTokensArgs(tokens) ==
    IF tokens = <<>> THEN <<>>
    ELSE TokenArgs(Head(tokens)) \o PutPrivacyTokensArgs(Tail(tokens))

\* The MySQL branch of PutPrivacyTokens: one statement per token in a
\* transaction that is rolled back when a statement fails.
RECURSIVE PutPrivacyTokensTx(_, _, _, _)
PutPrivacyTokensTx(jid, written, tokens, i) ==
    IF i > Len(tokens) THEN [rows |-> written, err |-> Nil]
    ELSE LET r == KvUpsert("mysql", PrivacyTokens, written, PutPrivacyTokenMySQL,
                           <<jid>> \o TokenArgs(tokens[i]))
         IN  IF r.err # Nil THEN r
             ELSE PutPrivacyTokensTx(jid, r.rows, tokens, i + 1)

KvIdle == [pc |-> "idle"]

KvReturn(op, table, jid, keys, value, db, err) ==
    [pc |-> "done", op |-> op, table |-> table, jid |-> jid, keys |-> keys,
     value |-> value, db |-> db, err |-> err]

KvCount(rows) ==
    Cardinality(rows[Sessions]) + Cardinality(rows[SenderKeys])
        + Cardinality(rows[AppStateVersion]) + Cardinality(rows[PrivacyTokens])

\* One Exec of an upsert on a table: the back end fails it, or it takes effect.
KvExec(op, table, jid, keys, value, st, args, db) ==
    LET r == IF db = DbOK THEN KvUpsert(EngineOf(dialect), table, kvRows[table], st, args)
             ELSE [rows |-> kvRows[table], err |-> db]
    IN  /\ kv.pc = "idle"
        /\ kvRows' = [kvRows EXCEPT ![table] = r.rows]
        /\ KvCount(kvRows') <= MaxStored
        /\ kv' = KvReturn(op, table, jid, keys, value, db, r.err)
        /\ UNCHANGED kvOther

PutSession(jid, address, session, db) ==
    KvExec("PutSession", Sessions, jid, <<address>>, session,
           PutSessionStatement[dialect], <<jid, address, session>>, db)

PutSenderKey(jid, group, user, session, db) ==
    KvExec("PutSenderKey", SenderKeys, jid, <<<<group, user>>>>, session,
           PutSenderKeyStatement[dialect], <<jid, group, user, session>>, db)

PutAppStateVersion(jid, name, version, hash, db) ==
    KvExec("PutAppStateVersion", AppStateVersion, jid, <<name>>,
           [version |-> version, hash |-> hash],
           PutAppStateVersionStatement[dialect],
           <<jid, name, version, Bytes(HashLen, hash)>>, db)

\* db is the outcome of Begin (MySQL) or of the one Exec (the other dialects).
PutPrivacyTokens(jid, tokens, db) ==
    LET users == [i \in 1..Len(tokens) |-> tokens[i].User]
        r == IF db # DbOK THEN [rows |-> kvRows[PrivacyTokens], err |-> db]
             ELSE IF dialect = "mysql"
             THEN LET tx == PutPrivacyTokensTx(jid, kvRows[PrivacyTokens], tokens, 1)
                  IN  IF tx.err # Nil THEN [rows |-> kvRows[PrivacyTokens], err |-> tx.err]
                      ELSE tx
             ELSE KvUpsert(EngineOf(dialect), PrivacyTokens, kvRows[PrivacyTokens],
                           PutPrivacyTokensStatement[dialect][Len(tokens)],
                           <<jid>> \o PutPrivacyTokensArgs(tokens))
    IN  /\ kv.pc = "idle"
        /\ kvRows' = [kvRows EXCEPT ![PrivacyTokens] = r.rows]
        /\ KvCount(kvRows') <= MaxStored
        /\ kv' = KvReturn("PutPrivacyTokens", PrivacyTokens, jid, users, tokens, db, r.err)
        /\ UNCHANGED kvOther

\* One QueryRow + Scan of a Get operation.
KvQuery(op, table, jid, keys, st, args, db) ==
    LET r == IF db = DbOK /\ ~Prepares(st, args)
             THEN [value |-> ZeroValue(op), err |-> ArgumentCount]
             ELSE Read(op, IF db = DbOK THEN KvSelect(table, kvRows[table], Bound(st, args))
                           ELSE {}, db)
    IN  /\ kv.pc = "idle"
        /\ kv' = KvReturn(op, table, jid, keys, r.value, db, r.err)
        /\ UNCHANGED <<kvRows, kvOther>>

GetSession(jid, address, db) ==
    KvQuery("GetSession", Sessions, jid, <<address>>,
            GetSessionStatement[dialect], <<jid, address>>, db)

GetSenderKey(jid, group, user, db) ==
    KvQuery("GetSenderKey", SenderKeys, jid, <<<<group, user>>>>,
            GetSenderKeyStatement[dialect], <<jid, group, user>>, db)

GetAppStateVersion(jid, name, db) ==
    KvQuery("GetAppStateVersion", AppStateVersion, jid, <<name>>,
            GetAppStateVersionStatement[dialect], <<jid, name>>, db)

\* GetPrivacyToken: the row scanned into a store.PrivacyToken, nil without a row.
GetPrivacyToken(jid, user, db) ==
    LET st == GetPrivacyTokenStatement[dialect]
        args == <<jid, user>>
        found == KvSelect(PrivacyTokens, kvRows[PrivacyTokens], Bound(st, args))
        row == CHOOSE r \in found : TRUE
        r == IF db # DbOK THEN [value |-> NilPointer, err |-> db]
             ELSE IF ~Prepares(st, args) THEN [value |-> NilPointer, err |-> ArgumentCount]
             ELSE IF found = {} THEN [value |-> NilPointer, err |-> Nil]
             ELSE [value |-> PrivacyToken(user, row.value.token, TimeUnix(row.value.timestamp)),
                   err |-> Nil]
    IN  /\ kv.pc = "idle"
        /\ kv' = KvReturn("GetPrivacyToken", PrivacyTokens, jid, <<user>>, r.value, db, r.err)
        /\ UNCHANGED <<kvRows, kvOther>>

KvDone ==
    /\ kv.pc = "done"
    /\ kv' = KvIdle
    /\ UNCHANGED <<kvRows, kvOther>>

KvInit ==
    /\ kvRows = [t \in KvTables |-> {}]
    /\ kv = KvIdle

KvFailures == {DbOK, DbOther}
KvBlobs == {Bytes(1, c) : c \in KvContents}
KvVersions == {1, 2}
KvTimes == {Time(1, 0), Time(2, 5)}
KvTokens ==
    {PrivacyToken("k1", Bytes(1, "x"), t) : t \in KvTimes}
        \cup {PrivacyToken("k2", Bytes(1, "y"), Time(1, 0))}
KvTokenLists == UNION {[1..n -> KvTokens] : n \in 0..MaxTokens}

KvNext ==
    \/ \E jid \in KvJIDs, key \in KvKeys, b \in KvBlobs, db \in KvFailures :
          \/ PutSession(jid, key, b, db)
          \/ PutSenderKey(jid, "g", key, b, db)
    \/ \E jid \in KvJIDs, key \in KvKeys, v \in KvVersions, db \in KvFailures :
          PutAppStateVersion(jid, key, v, "x", db)
    \/ \E jid \in KvJIDs, tokens \in KvTokenLists, db \in KvFailures :
          PutPrivacyTokens(jid, tokens, db)
    \/ \E jid \in KvJIDs, key \in KvKeys, db \in KvFailures :
          \/ GetSession(jid, key, db)
          \/ GetSenderKey(jid, "g", key, db)
          \/ GetAppStateVersion(jid, key, db)
          \/ GetPrivacyToken(jid, key, db)
    \/ KvDone

(***************************************************************************)
(* Chat settings                                                           *)
(***************************************************************************)
ChatSettings == "whatsmeow_chat_settings"
ChatJIDs == {"c1", "c2"}

\* muted_until BIGINT NOT NULL DEFAULT 0, pinned / archived BOOLEAN NOT NULL
\* DEFAULT false
ChatSettingDefaults == [muted_until |-> 0, pinned |-> FALSE, archived |-> FALSE]

\* fmt.Sprintf(putChatSettingQueryPostgres / MySQL / SQLite, column)
putChatSettingQueryPostgres(column) ==
    <<"INSERT INTO whatsmeow_chat_settings (our_jid, chat_jid,", column, ") VALUES">>
        \o MarkerTuple(<<1, 2, 3>>)
        \o <<"ON CONFLICT (our_jid, chat_jid) DO UPDATE SET", column, "=excluded.", column>>
putChatSettingQueryMySQL(column) ==
    <<"INSERT INTO whatsmeow_chat_settings (our_jid, chat_jid,", column, ") VALUES">>
        \o QuestionTuple(3)
        \o <<"ON DUPLICATE KEY UPDATE", column, "=VALUES(", column, ")">>
putChatSettingQuerySQLite(column) ==
    <<"INSERT INTO whatsmeow_chat_settings (our_jid, chat_jid,", column, ") VALUES">>
        \o QuestionTuple(3)
        \o <<"ON CONFLICT (our_jid, chat_jid) DO UPDATE SET", column, "=excluded.", column>>
getChatSettingsQuery ==
    <<"SELECT muted_until, pinned, archived FROM whatsmeow_chat_settings WHERE">>
        \o WhereMarkers(2)

PutChatSettingText(d, column) ==
    dialectQuery(d, IF d = "mysql" THEN putChatSettingQueryMySQL(column)
                    ELSE IF d = "sqlite3" THEN putChatSettingQuerySQLite(column)
                    ELSE putChatSettingQueryPostgres(column))

PutChatSettingStatement ==
    [d \in ContainerDialects |->
        [column \in DOMAIN ChatSettingDefaults |-> Statement(d, PutChatSettingText(d, column))]]
GetChatSettingsStatement ==
    [d \in ContainerDialects |-> Statement(d, dialectQuery(d, getChatSettingsQuery))]

\* The statement that names no column in its DO UPDATE and puts the inserted
\* row in the place of the stored one.
putChatSetting_ReplacesRow(rows, column, b) ==
    {r \in rows : ~(r.our_jid = b[1] /\ r.chat_jid = b[2])}
        \cup {[[our_jid |-> b[1], chat_jid |-> b[2], muted_until |-> 0,
                pinned |-> FALSE, archived |-> FALSE] EXCEPT ![column] = b[3]]}

\* INSERT INTO whatsmeow_chat_settings (our_jid, chat_jid, column) VALUES
\* ($1, $2, $3) ON CONFLICT (our_jid, chat_jid) DO UPDATE SET
\* column=excluded.column, with the arguments bound.
putChatSetting(rows, column, b) ==
    LET hit == {r \in rows : r.our_jid = b[1] /\ r.chat_jid = b[2]}
    IN  IF hit = {}
        THEN rows \cup {[[our_jid |-> b[1], chat_jid |-> b[2],
                          muted_until |-> ChatSettingDefaults.muted_until,
                          pinned |-> ChatSettingDefaults.pinned,
                          archived |-> ChatSettingDefaults.archived]
                            EXCEPT ![column] = b[3]]}
        ELSE (rows \ hit) \cup {[r EXCEPT ![column] = b[3]] : r \in hit}

\* The zero time.Time lies long before the epoch: -1 stands for its Unix
\* seconds.
ZeroTime == Time(-1, 0)
IsZero(t) == t = ZeroTime

CsIdle == [pc |-> "idle"]

\* One Exec of the column upsert of a chat.
PutChatSetting(op, jid, chat, column, val, db) ==
    LET st == PutChatSettingStatement[dialect][column]
        args == <<jid, chat, val>>
        old == {r \in chatSettings : r.our_jid = jid /\ r.chat_jid = chat}
        err == IF db # DbOK THEN db
               ELSE IF ~Prepares(st, args) THEN ArgumentCount ELSE Nil
    IN  /\ cs.pc = "idle"
        /\ chatSettings' = IF err = Nil THEN putChatSetting(chatSettings, column, Bound(st, args))
                           ELSE chatSettings
        /\ Cardinality(chatSettings') <= MaxStored
        /\ cs' = [pc |-> "done", op |-> op, jid |-> jid, chat |-> chat, column |-> column,
                  val |-> val, old |-> old, db |-> db, err |-> err]
        /\ UNCHANGED csOther

PutMutedUntil(jid, chat, mutedUntil, db) ==
    PutChatSetting("PutMutedUntil", jid, chat, "muted_until",
                   IF ~IsZero(mutedUntil) THEN Unix(mutedUntil) ELSE 0, db)

PutPinned(jid, chat, pinned, db) ==
    PutChatSetting("PutPinned", jid, chat, "pinned", pinned, db)

PutArchived(jid, chat, archived, db) ==
    PutChatSetting("PutArchived", jid, chat, "archived", archived, db)

LocalChatSettings(found, mutedUntil, pinned, archived) ==
    [Found |-> found, MutedUntil |-> mutedUntil, Pinned |-> pinned, Archived |-> archived]

GetChatSettings(jid, chat, db) ==
    LET st == GetChatSettingsStatement[dialect]
        args == <<jid, chat>>
        b == Bound(st, args)
        old == {r \in chatSettings : r.our_jid = jid /\ r.chat_jid = chat}
        hit == {r \in chatSettings : r.our_jid = b[1] /\ r.chat_jid = b[2]}
        row == CHOOSE r \in hit : TRUE
        scanErr == IF db # DbOK THEN db
                   ELSE IF ~Prepares(st, args) THEN ArgumentCount
                   ELSE IF hit = {} THEN ErrNoRows ELSE Nil
        settings ==
            IF scanErr # Nil THEN LocalChatSettings(FALSE, ZeroTime, FALSE, FALSE)
            ELSE LocalChatSettings(TRUE,
                                   IF row.muted_until # 0 THEN TimeUnix(row.muted_until)
                                   ELSE ZeroTime,
                                   row.pinned, row.archived)
    IN  /\ cs.pc = "idle"
        /\ cs' = [pc |-> "done", op |-> "GetChatSettings", jid |-> jid, chat |-> chat,
                  column |-> Nil, val |-> settings, old |-> old, db |-> db,
                  err |-> NoRowsIsNil(scanErr)]
        /\ UNCHANGED <<chatSettings, csOther>>

CsDone ==
    /\ cs.pc = "done"
    /\ cs' = CsIdle
    /\ UNCHANGED <<chatSettings, csOther>>

CsInit ==
    /\ chatSettings = {}
    /\ cs = CsIdle

MutedTimes == {ZeroTime, Time(0, 0), Time(5, 0), Time(7, 3)}

CsNext ==
    \/ \E jid \in KvJIDs, chat \in ChatJIDs, db \in KvFailures :
          \/ \E t \in MutedTimes : PutMutedUntil(jid, chat, t, db)
          \/ \E b \in BOOLEAN : PutPinned(jid, chat, b, db)
          \/ \E b \in BOOLEAN : PutArchived(jid, chat, b, db)
          \/ GetChatSettings(jid, chat, db)
    \/ CsDone

(***************************************************************************)
(* dialectQuery on the statements of the store                             *)
(***************************************************************************)
\* A statement text with the number of arguments its caller passes (0 for a
\* text that is only rendered).
Template(query, nargs) == [query |-> query, nargs |-> nargs]

\* Texts with one or two markers, every marker number dialectQuery knows.
MarkerTexts ==
    {<<"SELECT a WHERE b=">> \o Marker(n) : n \in 1..MaxMarker}
        \cup {<<"SELECT a WHERE b=">> \o Marker(n) \o <<"AND c=">> \o Marker(m) \o <<"LIMIT 1">> :
                n \in 1..MaxMarker, m \in 1..MaxMarker}

\* The templates the store passes through dialectQuery, with the number of
\* arguments of the call.
StoreTemplates ==
    {Template(getSessionQuery, 2), Template(putSenderKeyQuery, 4),
     Template(getSenderKeyQueryGeneric, 3), Template(putAppStateVersionQuery, 4),
     Template(getAppStateVersionQuery, 2), Template(getPrivacyToken, 2),
     Template(getChatSettingsQuery, 2), Template(putChatSettingQueryPostgres("pinned"), 3)}
        \cup {Template(PutPrivacyTokensQuery(n), 1 + n * 3) : n \in 1..MaxTokens}

DqIdle == [pc |-> "idle"]

\* One call of s.dialectQuery(query).
DqCall(t) ==
    /\ dq.pc = "idle"
    /\ dq' = [pc |-> "done", query |-> t.query, nargs |-> t.nargs,
              result |-> dialectQuery(dialect, t.query)]
    /\ UNCHANGED dqOther

DqDone ==
    /\ dq.pc = "done"
    /\ dq' = DqIdle
    /\ UNCHANGED dqOther

DqInit == dq = DqIdle

DqNext ==
    \/ \E q \in MarkerTexts : DqCall(Template(q, 0))
    \/ \E t \in StoreTemplates : DqCall(t)
    \/ DqDone

(***************************************************************************)
(* App-state versions and mutation MACs of one account                     *)
(***************************************************************************)
MaxIndexMACs == 2

\* The account of the store that owns mutationMACs.
McJID == "a"

deleteAppStateVersionQuery ==
    <<"DELETE FROM whatsmeow_app_state_version WHERE">> \o WhereMarkers(2)
deleteAppStateMutationMACsQueryPostgres ==
    <<"DELETE FROM whatsmeow_app_state_mutation_macs WHERE">> \o WhereMarkers(2)
        \o <<"AND index_mac=ANY(">> \o Marker(3) \o <<"::bytea[])">>
deleteAppStateMutationMACsQueryGeneric ==
    <<"DELETE FROM whatsmeow_app_state_mutation_macs WHERE">> \o WhereMarkers(2)
        \o <<"AND index_mac IN">>

\* queryParts[i] of DeleteAppStateMutationMACs (i is 0-based).
QueryPart(d, i) == IF d = "mysql" \/ d = "sqlite" THEN <<"?">> ELSE Marker(i + 3)

\* The statement DeleteAppStateMutationMACs executes for n index MACs;
\* wrapper: PostgresArrayWrapper != nil.
DeleteAppStateMutationMACsText(d, wrapper, n) ==
    IF d = "postgres" /\ wrapper
    THEN dialectQuery(d, deleteAppStateMutationMACsQueryPostgres)
    ELSE dialectQuery(d, deleteAppStateMutationMACsQueryGeneric)
            \o <<"(">> \o Join([i \in 1..n |-> QueryPart(d, i - 1)], <<",">>) \o <<")">>

DeleteAppStateVersionStatement ==
    [d \in ContainerDialects |-> Statement(d, dialectQuery(d, deleteAppStateVersionQuery))]
DeleteAppStateMutationMACsStatement ==
    [d \in ContainerDialects |-> [wrapper \in BOOLEAN |-> [n \in 1..MaxIndexMACs |->
        Statement(d, DeleteAppStateMutationMACsText(d, wrapper, n))]]]

\* Whether the session enforces the foreign keys of the schema: PostgreSQL
\* always does, SQLite and MySQL as the session is set.
Enforced(d, fk) == EngineOf(d) = "postgres" \/ fk

\* The whatsmeow_app_state_version row the foreign key (jid, name) of
\* whatsmeow_app_state_mutation_macs refers to.
HasVersionRow(versions, name) == \E r \in versions : r.jid = McJID /\ r.key = name

\* DELETE FROM whatsmeow_app_state_version WHERE jid=$1 AND name=$2, with
\* ON DELETE CASCADE of the MAC rows where the foreign key is enforced.
deleteAppStateVersion(d, fk, versions, macs, st, args) ==
    IF ~Prepares(st, args) THEN [versions |-> versions, macs |-> macs, err |-> DbErr(ArgumentCount)]
    ELSE LET b == Bound(st, args)
             gone == {r \in versions : r.jid = b[1] /\ r.key = b[2]}
         IN  [versions |-> versions \ gone,
              macs |-> IF Enforced(d, fk) /\ (\E r \in gone : r.jid = McJID)
                       THEN {m \in macs : m.name # b[2]} ELSE macs,
              err |-> NilErr]

\* DELETE FROM whatsmeow_app_state_mutation_macs WHERE jid=.. AND name=.. AND
\* index_mac IN (..) or =ANY(array): args[1] and args[2] are s.JID and name,
\* the index MACs follow one by one or as one array.  A name placeholder bound
\* to another argument matches no row.
deleteAppStateMutationMACs(macs, st, args, array) ==
    IF ~Prepares(st, args) THEN [macs |-> macs, err |-> DbErr(ArgumentCount)]
    ELSE LET p == st.params
             listed == IF array THEN {args[3][k] : k \in 1..Len(args[3])}
                       ELSE {args[p[k]] : k \in {j \in 3..Len(p) : p[j] >= 3}}
             hit(m) == p[1] = 1 /\ p[2] = 2 /\ m.name = args[2] /\ m.index_mac \in listed
         IN  [macs |-> {m \in macs : ~hit(m)}, err |-> NilErr]

\* What the operations on the two tables leave alone.
mcRest == <<dialect, skVars, pkVars, msVars, ctVars, dvVars, idVars, upVars, rdVars, csVars, dqVars>>

McIdle == [pc |-> "idle"]

\* SQLStore.DeleteAppStateVersion(name)
DeleteAppStateVersion(name, db) ==
    LET r == IF db # DbOK
             THEN [versions |-> kvRows[AppStateVersion], macs |-> mutationMACs, err |-> DbErr(db)]
             ELSE deleteAppStateVersion(dialect, foreignKeys, kvRows[AppStateVersion],
                                        mutationMACs, DeleteAppStateVersionStatement[dialect],
                                        <<McJID, name>>)
    IN  /\ mc.pc = "idle"
        /\ kvRows' = [kvRows EXCEPT ![AppStateVersion] = r.versions]
        /\ mutationMACs' = r.macs
        /\ mc' = [pc |-> "done", op |-> "DeleteAppStateVersion", name |-> name,
                  indexMACs |-> <<>>, wrapper |-> FALSE, text |-> <<>>, stmts |-> 1,
                  before |-> mutationMACs, db |-> db, err |-> r.err]
        /\ UNCHANGED <<mm, kv, mcRest>>

\* SQLStore.DeleteAppStateMutationMACs(name, indexMACs)
DeleteAppStateMutationMACs(name, indexMACs, wrapper, db) ==
    LET n == Len(indexMACs)
        array == dialect = "postgres" /\ wrapper
        st == DeleteAppStateMutationMACsStatement[dialect][wrapper][n]
        r == IF n = 0 THEN [macs |-> mutationMACs, err |-> NilErr]
             ELSE IF db # DbOK THEN [macs |-> mutationMACs, err |-> DbErr(db)]
             ELSE deleteAppStateMutationMACs(
                      mutationMACs, st,
                      IF array THEN <<McJID, name, indexMACs>> ELSE <<McJID, name>> \o indexMACs,
                      array)
    IN  /\ mc.pc = "idle"
        /\ n = 0 => db = DbOK
        /\ mutationMACs' = r.macs
        /\ mc' = [pc |-> "done", op |-> "DeleteAppStateMutationMACs", name |-> name,
                  indexMACs |-> indexMACs, wrapper |-> wrapper,
                  text |-> IF n = 0 THEN <<>> ELSE st.text,
                  stmts |-> IF n = 0 THEN 0 ELSE 1,
                  before |-> mutationMACs, db |-> db, err |-> r.err]
        /\ UNCHANGED <<mm, kvVars, mcRest>>

\* A PutAppStateMutationMACs call of the account: where the foreign key is
\* enforced and the version row of the name is missing, the back end rejects
\* the first row.
McPut(name, version, mutations) ==
    \E outcome \in IF Enforced(dialect, foreignKeys)
                        /\ ~HasVersionRow(kvRows[AppStateVersion], name)
                   THEN {BulkOutcome("exec", 1)}
                   ELSE BulkOutcomes(Len(mutations), mutationBatchSize) :
        PutAppStateMutationMACs(name, version, mutations, outcome)

McDone ==
    /\ mc.pc = "done"
    /\ mc' = McIdle
    /\ UNCHANGED <<mmVars, mcOther>>

McInit == mc = McIdle

McIndexLists == UNION {[1..n -> 1..3] : n \in 0..MaxIndexMACs}

\* The account's caller makes one call at a time.
McQuiet == mm.pc = "idle" /\ mc.pc = "idle" /\ kv.pc = "idle"

McNext ==
    \/ McQuiet /\ \E name \in KvKeys, db \in KvFailures :
                     PutAppStateVersion(McJID, name, 1, "x", db)
    \/ KvDone
    \/ McQuiet /\ \E name \in KvKeys, db \in KvFailures : DeleteAppStateVersion(name, db)
    \/ McQuiet /\ \E name \in KvKeys, mutations \in SmallMutations : McPut(name, 1, mutations)
    \/ MmDone
    \/ McQuiet /\ \E name \in KvKeys, indexMACs \in McIndexLists, wrapper \in BOOLEAN,
                        db \in KvFailures :
                     DeleteAppStateMutationMACs(name, indexMACs, wrapper, db)
    \/ McDone
    \/ McQuiet /\ \E on \in BOOLEAN : SetForeignKeys(on)

(***************************************************************************)
(* One container: Upgrade and the statements the store renders and builds  *)
(***************************************************************************)
\* The statement putContactNamesBatch executes for n contacts:
\* putManyContactNamesQuery with "(?, ?, ?, ?)" for sqlite3 and mysql and
\* "($1, $baseIndex+1, $baseIndex+2, $baseIndex+3)", baseIndex = i*3 + 1,
\* otherwise, passed through dialectQuery.
putContactNamesBatchText(d, n) ==
    dialectQuery(d,
        <<"INSERT INTO whatsmeow_contacts (our_jid, their_jid, first_name, full_name) VALUES">>
            \o Join([k \in 1..n |->
                        LET baseIndex == (k - 1) * 3 + 1
                        IN  IF d = "sqlite3" \/ d = "mysql" THEN QuestionTuple(4)
                            ELSE MarkerTuple(<<1, baseIndex + 1, baseIndex + 2, baseIndex + 3>>)],
                    <<",">>)
            \o <<"ON CONFLICT (our_jid, their_jid) DO UPDATE SET first_name=excluded.first_name, full_name=excluded.full_name">>)

\* The statements the builders of the store make for one and for two entries.
BuiltStatements ==
    [d \in ContainerDialects |->
        UNION {{putContactNamesBatchText(d, n), putAppStateMutationMACsText(d, n),
                DeleteAppStateMutationMACsText(d, FALSE, n)} : n \in 1..2}]

\* A store of the container builds the statement of one of its writes.
DqBuild(text) ==
    /\ dq.pc = "idle"
    /\ dq' = [pc |-> "done", query |-> <<>>, nargs |-> 0, result |-> text]
    /\ UNCHANGED dqOther

TagNext ==
    \/ UpNext
    \/ DqCall(Template(getSessionQuery, 2))
    \/ \E text \in BuiltStatements[dialect] : DqBuild(text)
    \/ DqDone

Init ==
    /\ dialect \in Dialects
    /\ SkInit
    /\ PkInit
    /\ MsInit
    /\ MmInit
    /\ CtInit
    /\ DvInit
    /\ IdInit
    /\ UpInit
    /\ RdInit
    /\ KvInit
    /\ CsInit
    /\ DqInit
    /\ McInit

\* The state a Container is built in, with any tag it may be given.
ContainerInit ==
    /\ dialect \in ContainerDialects
    /\ SkInit
    /\ PkInit
    /\ MsInit
    /\ MmInit
    /\ CtInit
    /\ DvInit
    /\ IdInit
    /\ UpInit
    /\ RdInit
    /\ KvInit
    /\ CsInit
    /\ DqInit
    /\ McInit

SpecSyncKey == Init /\ [][SkNext]_vars
SpecPreKey == Init /\ [][PkNext]_vars
SpecPreKeyAlloc == Init /\ [][PkAllocNext]_vars
SpecPreKeySeq == Init /\ [][PkSeqNext]_vars
SpecMsgSecret == Init /\ [][MsNext]_vars
SpecMac == Init /\ [][MmNext]_vars
SpecContacts == Init /\ [][CtNext]_vars
SpecContactNames == Init /\ [][ClNext]_vars
SpecBulk == Init /\ [][BulkNext]_vars
SpecDevice == Init /\ [][DvNext]_vars
SpecIdentity == Init /\ [][IdNext]_vars
SpecUpgrade == ContainerInit /\ [][UpNext]_vars
SpecReads == Init /\ [][RdNext]_vars
SpecMacRead == Init /\ [][MacReadNext]_vars
SpecOverwrite == Init /\ [][KvNext]_vars
SpecChatSettings == Init /\ [][CsNext]_vars
SpecDialectQuery == Init /\ [][DqNext]_vars
SpecAppState == ContainerInit /\ [][McNext]_vars
SpecContainer == ContainerInit /\ [][TagNext]_vars

\* The goroutine inside putMessageSecretsWithRetry keeps running: time.Sleep
\* returns and the next attempt is made.
SpecMsgSecretFair ==
    Init /\ [][MsBatchNext]_vars /\ WF_vars(\E outcome \in MsOutcomes(Len(ms.inserts)) : MsAttempt(outcome))

(***************************************************************************)
(* The properties                                                          *)
(***************************************************************************)
\* C1: a PutAppStateSyncKey replaces a stored row only when its timestamp is
\* strictly greater than the stored one, on every dialect: whenever the row
\* stored under a key id changes, its timestamp has strictly increased.
C1_StaleWriterNeverOverwrites ==
    [][\A id \in SyncKeyIDs :
          LET old == GetAppStateSyncKey(dialect, syncKeys, id)
              new == GetAppStateSyncKey(dialect, syncKeys', id)
          IN  (old.found /\ new # old) => new.Timestamp > old.Timestamp]_vars

\* C2: a GenOnePreKey call that starts after an earlier GenOnePreKey call returned
\* returns a strictly greater key id, whatever other operations (RemovePreKey
\* included) ran in between: the id a successful call returns exceeds every id
\* returned by a GenOnePreKey call that had completed when it started.
C2_GenOneStrictlyIncreasing ==
    (pkRet.op = "GenOnePreKey" /\ pkRet.err = Nil) => pkRet.ids[1] > pkRet.startMax

\* C3: without removals, an allocator's read of max(key_id) and its inserts are
\* never interleaved with another allocator's: at most one goroutine is between
\* its Lock and its return and it holds the mutex, the id it is about to insert
\* is max(key_id)+1 (so no insert meets a stored id), and the stored ids are
\* the gap-free range 1..n.
PkCritical == {p \in Procs : pk[p].pc \in {"query", "next", "insert"}}

C3_AllocationsAtomic ==
    /\ Cardinality(PkCritical) <= 1
    /\ \A p \in PkCritical : preKeyLock = p
    /\ \A p \in Procs : pk[p].pc = "insert" => pk[p].nextKeyID = PkHighest + 1
    /\ PreKeyIDs(preKeys) = 1..Cardinality(preKeys)

\* Two allocators contend: GetOrGenPreKeys has inserted its first key and is about
\* to insert the next one while another allocator waits for the mutex.
C3_Witness ==
    \E p, q \in Procs :
        /\ p # q
        /\ pk[p].pc = "insert" /\ pk[p].op = "GetOrGenPreKeys" /\ Len(pk[p].newKeys) >= 1
        /\ pk[q].pc = "lock"
        /\ preKeys # {}

\* C4: message secrets are first-write-wins: whatever PutMessageSecret or
\* PutMessageSecrets step is taken (retried attempts included), every stored row
\* stays as it is, the primary key stays unique, GetMessageSecret keeps returning
\* the secret it returned before, and a call whose statements the back end
\* accepted returns no error although its key was already stored.
MsKeys(rows) == {<<r.chat_jid, r.sender_jid, r.message_id>> : r \in rows}

C4_FirstWriteWins ==
    [][/\ msgSecrets \subseteq msgSecrets'
       /\ Cardinality(MsKeys(msgSecrets')) = Cardinality(msgSecrets')
       /\ \A sender \in MsSenders :
             LET k1 == GetMessageSecret(msgSecrets, MsChat, sender, 1)
             IN  k1 # "" => GetMessageSecret(msgSecrets', MsChat, sender, 1) = k1
       /\ (ms'.pc = "done" /\ ms'.hist # <<>> /\ ms'.hist[Len(ms'.hist)] = DbOK)
             => ms'.err = NilErr]_vars

\* A PutMessageSecrets call whose first attempt failed and whose retry succeeded
\* has returned nil for an insert whose key was stored with another secret, and
\* GetMessageSecret still returns the first secret.
C4_Witness ==
    /\ ms.pc = "done" /\ ms.op = "PutMessageSecrets" /\ ms.err = NilErr
    /\ Len(ms.hist) >= 2 /\ Len(ms.inserts) >= 1
    /\ LET ins == ms.inserts[1]
           k1 == GetMessageSecret(ms.before, ins.Chat, ins.Sender, ins.ID)
       IN  /\ k1 # "" /\ k1 # ins.Secret
           /\ GetMessageSecret(msgSecrets, ins.Chat, ins.Sender, ins.ID) = k1

\* C5: when the device row of an account is deleted, no row keyed by that
\* account is left in any account-scoped table the migrations create.
C5_DeleteDeviceLeavesNoRows ==
    [][\A jid \in DeviceJIDs :
          (jid \in devices /\ jid \notin devices') =>
              \A t \in AccountTables : jid \notin dbRows'[t]]_vars

\* C6: every PutAppStateMutationMACs call is all-or-nothing, for every batch
\* size and on every dialect: a call that returned an error has left the table as
\* it was, and a call that returned nil has stored every row of the batch.
C6_BatchAllOrNothing ==
    mm.pc = "done" =>
        /\ mm.err # NilErr => mutationMACs = mm.before
        /\ mm.err = NilErr =>
              \A k \in 1..Len(mm.mutations) :
                  MacRow(MacName, mm.version, mm.mutations[k]) \in mutationMACs

\* C7: above their thresholds PutAppStateMutationMACs and PutAllContactNames cut
\* the input into consecutive slices of 400 / 300 that put together give the
\* input back, write them in one transaction, and when the write of a slice
\* fails return the error with none of the rows stored and (contacts) the cache
\* as it was.
RECURSIVE Concat(_, _)
Concat(seqs, j) == IF j > Len(seqs) THEN <<>> ELSE seqs[j] \o Concat(seqs, j + 1)

ChunksCover(chunks, seq, size) ==
    /\ Concat(chunks, 1) = seq
    /\ \A j \in 1..(Len(chunks) - 1) : Len(chunks[j]) = size
    /\ Len(chunks[Len(chunks)]) \in 1..size

C7_ChunkedInOneTransaction ==
    /\ (mm.pc = "done" /\ Len(mm.mutations) > mutationBatchSize) =>
          /\ ChunksCover(Chunks(mm.mutations, mutationBatchSize), mm.mutations,
                         mutationBatchSize)
          /\ mm.txs = 1
          /\ mm.err # NilErr => mutationMACs = mm.before
          /\ mm.err = NilErr =>
                mutationMACs = mm.before \cup
                    {MacRow(MacName, mm.version, mm.mutations[k]) : k \in 1..Len(mm.mutations)}
    /\ (ct.pc = "done" /\ Len(ct.entries) > contactBatchSize) =>
          /\ ChunksCover(Chunks(ct.entries, contactBatchSize), ct.entries,
                         contactBatchSize)
          /\ ct.txs = 1
          /\ ct.err # NilErr => contacts = ct.before /\ contactCache = ct.cacheBefore
          /\ ct.err = NilErr =>
                \A k \in 1..Len(ct.entries) : ContactRow(ct.entries[k]) \in contacts

\* Both writers have returned an error from a call above the threshold, the
\* MAC writer from its second slice after the first one was written inside the
\* transaction, and the contact cache held an entry.
C7_Witness ==
    /\ mm.pc = "done" /\ mm.err # NilErr /\ mm.i = mutationBatchSize
    /\ ct.pc = "done" /\ ct.err # NilErr /\ Len(ct.entries) > contactBatchSize
    /\ ct.cacheBefore # EmptyCache /\ contactCache = ct.cacheBefore

\* C8: when a PutMessageSecrets call with more than 50 inserts fails, the table
\* holds the same message secrets as before the call.
C8_FailedCallStoresNothing ==
    (/\ ms.pc = "done" /\ ms.op = "PutMessageSecrets"
     /\ Len(ms.inserts) > msgSecretBatchSize /\ ms.err # NilErr)
        => msgSecrets = ms.before

\* C9: on each chunk putMessageSecretsWithRetry makes at most 3 attempts, makes
\* no attempt after a successful one and returns nil for it, returns the
\* retry-exhausted error carrying the count 3 with no row of the chunk stored
\* when 3 attempts failed with a lock-wait timeout, and always terminates.
MsInEnvelope(i) == ms.pc = "attempt" /\ ms.i = i

C9_EnvelopeInv ==
    ms.op = "PutMessageSecrets" =>
        /\ Len(ms.hist) <= 3
        /\ ms.pc = "attempt" =>
              /\ ms.attempt = Len(ms.hist) /\ Len(ms.hist) < 3
              /\ \A k \in 1..Len(ms.hist) : ms.hist[k] # DbOK
        /\ ms.pc = "done" =>
              /\ \A k \in 1..(Len(ms.hist) - 1) : ms.hist[k] # DbOK
              /\ ms.hist[Len(ms.hist)] = DbOK => ms.err = NilErr
              /\ ms.hist = <<DbLockTimeout, DbLockTimeout, DbLockTimeout>> =>
                    /\ ms.err.msg = RetryExhausted.msg /\ ms.err.attempts = 3
                    /\ msgSecrets = ms.chunkBefore

C9_RetryEnvelopeBounded ==
    /\ []C9_EnvelopeInv
    /\ \A i \in {k * msgSecretBatchSize : k \in 0..MaxBulkChunks} :
          MsInEnvelope(i) ~> ~MsInEnvelope(i)

\* The envelope of the second chunk has used up its three attempts on lock-wait
\* timeouts and PutMessageSecrets has returned the retry-exhausted error.
C9_Witness ==
    /\ ms.pc = "done" /\ ms.op = "PutMessageSecrets" /\ ms.i = msgSecretBatchSize
    /\ ms.hist = <<DbLockTimeout, DbLockTimeout, DbLockTimeout>>
    /\ ms.err = RetryExhausted
    /\ ms.slept = <<100, 200, 300>>

\* C10: on every dialect an attempt is followed by another one only when it
\* failed with a lock-wait timeout, and a failure of another kind is returned
\* after exactly one attempt with the back-end error wrapped in what is returned.
C10_RetryOnlyOnLockTimeout ==
    ms.op = "PutMessageSecrets" =>
        /\ ms.pc = "attempt" => \A k \in 1..Len(ms.hist) : ms.hist[k] = DbLockTimeout
        /\ (ms.pc = "done" /\ ms.hist[Len(ms.hist)] = DbOther) =>
              Len(ms.hist) = 1 /\ ms.err.cause = DbOther

\* C11: an IsTrustedIdentity call that the database answers returns true
\* without error when the peer has no stored identity, false with
\* ErrInvalidLength when the stored identity is not 32 bytes long, and
\* otherwise exactly whether the stored key equals the key asked about; a
\* successful PutIdentity(peer, k) leaves k as the one stored identity of peer.
C11_TrustIsKeyEquality ==
    idc.pc = "done" /\ idc.err \in {Nil, ErrInvalidLength} =>
        LET stored == getIdentityQuery(identities, idc.address) IN
        /\ idc.op = "PutIdentity" => stored = {SliceOf(idc.key)}
        /\ idc.op = "IsTrustedIdentity" =>
              /\ Cardinality(stored) <= 1
              /\ stored = {} => idc.trusted /\ idc.err = Nil
              /\ \A b \in stored :
                    IF b.len # IdentityLen
                    THEN ~idc.trusted /\ idc.err = ErrInvalidLength
                    ELSE /\ idc.err = Nil
                         /\ idc.trusted <=> (b = SliceOf(idc.key))

C11_Witness ==
    /\ idc.pc = "done" /\ idc.op = "IsTrustedIdentity"
    /\ ~idc.trusted /\ idc.err = Nil
    /\ getIdentityQuery(identities, idc.address) \in
          {{SliceOf(k)} : k \in IdentityKeys \ {idc.key}}

\* C12: DeleteIdentity(address) removes the row of exactly that address and
\* no other row, whatever characters the address holds.
C12_DeleteIdentityExactMatch ==
    idc.pc = "done" /\ idc.op = "DeleteIdentity" /\ idc.err = Nil =>
        identities = deleteIdentityQuery(idc.before, idc.address)

\* C13: a PutPushName, PutBusinessName or PutContactName call that returns
\* success without writing does so only when the stored row already holds the
\* names it was called with: no call is skipped on a stale cached record while
\* PutAllContactNames runs beside it.
HasNames(c, info) ==
    /\ c.op = "PutPushName" => info.PushName = c.name
    /\ c.op = "PutBusinessName" => info.BusinessName = c.name
    /\ c.op = "PutContactName" => info.FirstName = c.first /\ info.FullName = c.full

PutNameStored(c, rows) == HasNames(c, getContactQuery(rows, c.user))

C13_NoPutSkippedOnStaleCache ==
    [][(/\ cl.pc = "compare" /\ cl'.pc = "done"
        /\ cl'.err = NilErr /\ ~cl'.wrote) => PutNameStored(cl, contacts)]_vars

\* C14: a successful PutAllContactNames with a non-empty list ends by replacing
\* the cache with an empty map under the lock; whenever the lock is free and no
\* PutAllContactNames stands between its write and that replacement, every
\* cached record equals what the table holds for its contact, and a GetContact
\* returning then returns what the table holds: after the call, no names from
\* before the bulk write are cached or returned.
BulkPending == ct.pc = "clear"

CacheCoherent ==
    \A u \in DOMAIN contactCache : contactCache[u] = getContactQuery(contacts, u)

C14_CoherentInv ==
    (contactCacheLock = "free" /\ ~BulkPending) => CacheCoherent

C14_ClearStep ==
    (ct.pc = "clear" /\ ct'.pc = "done") =>
        /\ contactCacheLock = "free"
        /\ contactCache' = EmptyCache
        /\ ct.err = NilErr /\ Len(ct.entries) > 0

C14_GetContactStep ==
    (/\ cl.pc \in {"getContact", "store"} /\ cl'.pc = "done"
     /\ cl.op = "GetContact" /\ cl'.err = NilErr /\ ~BulkPending) =>
        cl'.ret = getContactQuery(contacts, cl.user)

C15_AfterPut ==
    (cl.pc = "done" /\ cl.op \in PutNameCalls /\ cl.err = NilErr) =>
        /\ PutNameStored(cl, contacts)
        /\ cl.user \in DOMAIN contactCache
        /\ HasNames(cl, contactCache[cl.user])
        /\ cl.changed <=> (cl.wrote /\ cl.op # "PutContactName")
        /\ ~cl.wrote => cl.previous = ""

C15_CompareStep ==
    cl.pc = "compare" =>
        LET stored == getContactQuery(contacts, cl.user) IN
        IF PutNameStored(cl, contacts)
        THEN /\ cl'.pc = "done" /\ cl'.err = NilErr
             /\ ~cl'.wrote /\ ~cl'.changed /\ cl'.previous = ""
             /\ UNCHANGED <<contacts, contactCache>>
        ELSE cl'.err = NilErr =>
                /\ cl'.wrote
                /\ cl.op = "PutPushName" => cl'.previous = stored.PushName
                /\ cl.op = "PutBusinessName" => cl'.previous = stored.BusinessName

C15_RepeatedPutIsNoOp ==
    /\ []C15_AfterPut
    /\ [][C15_CompareStep]_vars

\* PutPushName returned (false, "") without reading or writing the table: the
\* cached record, left by an earlier call, already held the name.
C15_Witness ==
    /\ cl.pc = "done" /\ cl.op = "PutPushName" /\ cl.err = NilErr
    /\ ~cl.read /\ ~cl.wrote /\ ~cl.changed /\ cl.previous = ""
    /\ contactCache[cl.user].PushName = cl.name
    /\ contactCache[cl.user].BusinessName # ""

\* C16: a write of PutPushName, PutBusinessName, PutContactName or
\* PutAllContactNames changes, in the table, only the columns it names in the
\* rows of the contacts it names, and the update of the cached record that
\* follows a single-contact write changes only those names and Found; a
\* contact first written by PutContactName and PutPushName is then returned by
\* GetContact with those three names, an empty business name and Found true.
OwnColumns(op) ==
    IF op = "PutPushName" THEN {"push_name"}
    ELSE IF op = "PutBusinessName" THEN {"business_name"}
    ELSE {"first_name", "full_name"}

OwnFields(op) ==
    IF op = "PutPushName" THEN {"PushName", "Found"}
    ELSE IF op = "PutBusinessName" THEN {"BusinessName", "Found"}
    ELSE {"FirstName", "FullName", "Found"}

\* Between the tables old and new, the rows of the contacts in jids differ at
\* most in the columns cols, and no other row differs.
OnlyColumnsChanged(old, new, jids, cols) ==
    /\ {r \in new : r.their_jid \notin jids} = {r \in old : r.their_jid \notin jids}
    /\ \A r \in new : r.their_jid \in jids =>
          LET was == {o \in old : o.their_jid = r.their_jid}
              before == IF was = {} THEN NewContactRow(r.their_jid)
                        ELSE CHOOSE o \in was : TRUE
          IN  \A col \in DOMAIN r \ cols : r[col] = before[col]
    /\ \A o \in old : \E r \in new : r.their_jid = o.their_jid

C16_WriteStep ==
    /\ (cl.pc = "compare" /\ cl'.pc = "update") =>
          /\ OnlyColumnsChanged(contacts, contacts', {cl.user}, OwnColumns(cl.op))
          /\ PutNameStored(cl, contacts')
    /\ (cl.pc = "update" /\ cl'.pc = "done") =>
          /\ \A u \in DOMAIN contactCache \ {cl.user} :
                u \in DOMAIN contactCache' /\ contactCache'[u] = contactCache[u]
          /\ \A f \in DOMAIN contactCache[cl.user] \ OwnFields(cl.op) :
                contactCache'[cl.user][f] = contactCache[cl.user][f]
          /\ HasNames(cl, contactCache'[cl.user]) /\ contactCache'[cl.user].Found
    /\ (ct.pc = "idle" /\ ct'.pc # "idle") =>
          OnlyColumnsChanged(contacts, contacts',
                             {ct'.entries[k].JID : k \in 1..Len(ct'.entries)},
                             {"first_name", "full_name"})

C16_OnlyNamedFieldsChange == [][C16_WriteStep]_vars

\* GetContact read the row of a contact written by PutContactName(1, "a", "b")
\* and PutPushName(1, "a") only and returned it.
C16_Witness ==
    /\ cl.pc = "done" /\ cl.op = "GetContact" /\ cl.user = 1 /\ cl.err = NilErr
    /\ cl.read
    /\ cl.ret = ContactInfo(TRUE, "a", "b", "a", "")
    /\ contacts = {[their_jid |-> 1, first_name |-> "a", full_name |-> "b",
                    push_name |-> "a", business_name |-> Nil]}

\* C17: GetContact returns a cached record without reading the table; with none
\* cached it reads the table, returns the error of a failed read and leaves the
\* cache as it was, and otherwise caches and returns what it read, which for a
\* contact without a row is Found = false with four empty names and no error.
C17_GetContactStep ==
    /\ (cl.pc = "getContact" /\ cl.op = "GetContact") =>
          /\ contactCache' = contactCache
          /\ IF cl.user \in DOMAIN contactCache
             THEN /\ cl'.pc = "done" /\ ~cl'.read /\ cl'.err = NilErr
                  /\ cl'.ret = contactCache[cl.user]
             ELSE /\ cl'.read
                  /\ cl'.err # NilErr => cl'.pc = "done" /\ cl'.ret = Nil
                  /\ cl'.err = NilErr => cl'.pc = "store"
    /\ (cl.pc = "store" /\ cl.op = "GetContact") =>
          /\ cl'.pc = "done" /\ cl'.err = NilErr
          /\ contactCache' = CacheStore(contactCache, [u \in {cl.user} |-> cl'.ret])
          /\ \A r \in contacts : r.their_jid = cl.user =>
                cl'.ret = ContactInfo(TRUE, NullString(r.first_name),
                                      NullString(r.full_name), NullString(r.push_name),
                                      NullString(r.business_name))
          /\ (\A r \in contacts : r.their_jid # cl.user) =>
                cl'.ret = ContactInfo(FALSE, "", "", "", "")

C17_GetContactCacheThrough == [][C17_GetContactStep]_vars

\* GetContact read the table for a contact without a row, while the row of
\* another contact was stored and cached, and returned Found = false.
C17_Witness ==
    /\ cl.pc = "done" /\ cl.op = "GetContact" /\ cl.err = NilErr /\ cl.read
    /\ ~cl.ret.Found
    /\ contacts # {} /\ \A r \in contacts : r.their_jid # cl.user
    /\ DOMAIN contactCache = ContactUsers

\* C18: a GetOrGenPreKeys(count) call that returns without error while no
\* other pre-key operation ran beside it returns count keys: the lowest
\* min(count, u) of the u stored keys not marked uploaded, in ascending key id
\* order, then new keys with the consecutive ids from max stored key id (0 when
\* there is none) plus one, stored with uploaded = false; the ids are pairwise
\* distinct and each is stored when the call returns.
PkReturns(p) == pk[p].pc \in {"query", "next", "insert"} /\ pk'[p].pc = "idle"

C18_ReturnStep ==
    \A p \in Procs :
        (PkReturns(p) /\ pk[p].op = "GetOrGenPreKeys" /\ pkRet'.err = Nil) =>
            LET before == pk[p].before
                count == pk[p].count
                ids == pkRet'.ids
                notUploaded == {r.key_id : r \in {x \in before : ~x.uploaded}}
                existing == Min({count, Cardinality(notUploaded)})
                lastKeyID == IF before = {} THEN 0 ELSE Max(PreKeyIDs(before))
            IN  /\ Len(ids) = count
                /\ \A i \in 1..existing :
                      /\ ids[i] \in notUploaded
                      /\ Cardinality({j \in notUploaded : j < ids[i]}) = i - 1
                /\ \A i \in (existing + 1)..count : ids[i] = lastKeyID + (i - existing)
                /\ \A i, j \in 1..count : i # j => ids[i] # ids[j]
                /\ \A i \in 1..count :
                      [key_id |-> ids[i], keyLen |-> PreKeyLen, uploaded |-> FALSE] \in preKeys'
                /\ before \subseteq preKeys'
                /\ PreKeyIDs(preKeys') = PreKeyIDs(before) \cup {ids[i] : i \in 1..count}

C18_GetOrGenReturnsCountKeys == [][C18_ReturnStep]_vars

\* GetOrGenPreKeys(2) found key 1 stored and not uploaded, and returned it and
\* the new key 2.
C18_Witness ==
    /\ pkRet.op = "GetOrGenPreKeys" /\ pkRet.err = Nil /\ pkRet.ids = <<1, 2>>
    /\ pkRet.before = {[key_id |-> 1, keyLen |-> PreKeyLen, uploaded |-> FALSE]}
    /\ preKeys = pkRet.before \cup
                    {[key_id |-> 2, keyLen |-> PreKeyLen, uploaded |-> FALSE]}

\* C19: a GenOnePreKey call that returns without error returns the key id max
\* stored key id (0 when there is none) plus one and has stored it with
\* uploaded = true; when the ids stored before it are 1..n, all uploaded, it
\* returns n+1 and UploadedPreKeyCount is n+1 afterwards, so that n calls in a
\* row on an empty account return 1..n and leave the count n.
C19_ReturnStep ==
    \A p \in Procs :
        (PkReturns(p) /\ pk[p].op = "GenOnePreKey" /\ pkRet'.err = Nil) =>
            LET before == pk[p].before
                lastKeyID == IF before = {} THEN 0 ELSE Max(PreKeyIDs(before))
                n == Cardinality(before)
            IN  /\ pkRet'.ids = <<lastKeyID + 1>>
                /\ preKeys' = before \cup
                      {[key_id |-> lastKeyID + 1, keyLen |-> PreKeyLen, uploaded |-> TRUE]}
                /\ (PreKeyIDs(before) = 1..n /\ \A r \in before : r.uploaded) =>
                      /\ pkRet'.ids = <<n + 1>>
                      /\ PreKeyIDs(preKeys') = 1..(n + 1)
                      /\ getUploadedPreKeyCountQuery(preKeys') = n + 1

C20_UploadedNeverReverts ==
    \A r \in preKeys : r.key_id = genMax => r.uploaded

\* C21: MarkPreKeysAsUploaded(k) sets uploaded on every stored pre-key with
\* key id <= k and changes nothing else: the key ids and key material stay, the
\* keys with a greater id keep their flag; applied a second time with the same
\* k it changes nothing.  A successful call is one such update.
MarkedUpTo(rows, after, k) ==
    /\ PreKeyIDs(after) = PreKeyIDs(rows)
    /\ Cardinality(after) = Cardinality(rows)
    /\ \A r \in rows : \E a \in after :
          /\ a.key_id = r.key_id /\ a.keyLen = r.keyLen
          /\ a.uploaded = (r.uploaded \/ r.key_id <= k)

C21_MarkInv ==
    \A k \in 1..MaxKeyID :
        LET once == markPreKeysAsUploadedQuery(preKeys, k)
        IN  /\ MarkedUpTo(preKeys, once, k)
            /\ markPreKeysAsUploadedQuery(once, k) = once

C21_MarkStep ==
    (pk' = pk /\ preKeys' # preKeys /\ PreKeyIDs(preKeys') = PreKeyIDs(preKeys)) =>
        \E k \in 1..MaxKeyID : MarkedUpTo(preKeys, preKeys', k)

StoredVersion(db) == Max(StoredVersions(db))

\* The steps from..to in list order.
StepsFrom(from, to) == [i \in 1..(IF to > from THEN to - from ELSE 0) |-> from + i]

C22_Returned ==
    up.pc = "done" =>
        /\ StoredVersion(database) >= StoredVersion(up.start)
        /\ up.err = NilErr =>
              /\ up.applied = StepsFrom(StoredVersion(up.start), Latest)
              /\ database.version = {Latest}

C22_CommitStep ==
    (up.pc = "commit" /\ up'.pc = "loop") =>
        /\ database'.version = {up.version + 1}
        /\ StoredVersion(database') = StoredVersion(up.before) + 1
        /\ up.applied # <<>> /\ up.applied[Len(up.applied)] = up.version + 1

\* C22: from any stored version v, Upgrade applies exactly the steps v+1..7
\* in list order, each once, each in a transaction that also stores the
\* step's number; the stored version never decreases and grows by exactly 1
\* per committed step; the version table holds exactly one row after every
\* committed step; a successful Upgrade ends with version 7.
C22_UpgradeAppliesEachStepOnce == []C22_Returned /\ [][C22_CommitStep]_vars

\* C23: whenever Upgrade returns an error raised during a step (by the
\* step's upgrade function, by the version bump or by the commit), the
\* step's transaction is rolled back and not left open, the stored version
\* is that of the last committed step and none of the step's changes is
\* visible.
C23_FailedStepRolledBack ==
    (up.pc = "done" /\ up.at \in {"step", "setVersion", "commit"}) =>
        /\ ~up.tx.open
        /\ database = up.before
        /\ database.version = up.before.version

\* The tags under which the store or Upgrade treats the back end as the
\* embedded engine.
Embedded(d) == d = "sqlite3" \/ d = "sqlite"

\* C24: with foreign-key enforcement disabled on an embedded or MySQL back
\* end, Upgrade returns an error before it creates the version table, begins
\* a transaction or applies a step, so the database is unchanged; with
\* enforcement enabled the check does not refuse.
C24_RefusesWithoutForeignKeys ==
    up.pc # "idle" =>
        /\ ((Embedded(dialect) \/ dialect = "mysql") /\ ~up.fk) =>
              /\ up.pc \in {"check", "done"}
              /\ up.pc = "done" => up.err # NilErr
              /\ database = up.start
              /\ ~up.tx.open
        /\ (up.fk /\ up.pc = "done") => up.err.msg # "foreign keys are not enabled"

C25_Restored ==
    (dialect = "mysql" /\ up.pc \in {"setVersion", "commit", "loop", "done"} /\ up.fk) =>
        foreignKeys

C25_OtherDialects ==
    (dialect # "mysql" /\ up.pc = "loop" /\ up.version = Latest - 1 /\ up'.pc = "setVersion") =>
        /\ up'.tx.view = database
        /\ UNCHANGED <<foreignKeys, database>>

\* C25: on MySQL foreign-key enforcement is enabled again whenever step 7 and
\* the enclosing Upgrade have returned, on success and on a failure at any
\* statement of the step; on other dialects step 7 changes nothing.
C25_ForeignKeysRestored == []C25_Restored /\ [][C25_OtherDialects]_vars

\* The identities stored for the self-identity peer of a device: the local
\* user (the text before the first '.') followed by ':0'.
SelfIdentities(db, jid) ==
    {r.identity : r \in {x \in db.identities :
                           x.our_jid = jid /\ x.their_id = SplitPart(jid) \o <<":", "0">>}}

\* C26: after migration step 2 commits, on every dialect, every remaining
\* device row has a non-null adv_account_sig_key equal to the identity stored
\* for its self-identity peer, and every device that had no such identity row
\* has been deleted.
C26_SigKeyBackfilled ==
    [][(up.pc = "commit" /\ up.version = 1 /\ up'.pc = "loop") =>
         /\ \A r \in database'.devices :
               /\ r.adv_account_sig_key # Nil
               /\ r.adv_account_sig_key \in SelfIdentities(database', r.jid)
         /\ \A r \in up.before.devices :
               SelfIdentities(up.before, r.jid) = {} =>
                   \A x \in database'.devices : x.jid # r.jid]_vars

\* C27: on MySQL no migration step fails because the table or column it
\* creates already exists, so a step can be run again after an aborted
\* attempt.
C27_StepsRerunnable ==
    (dialect = "mysql" /\ up.pc = "done" /\ up.at = "step") =>
        up.err.cause \notin {AlreadyExists, DuplicateColumn}

\* C28: PutMessageSecrets with an empty list is a no-op that succeeds: it
\* returns no error whatever the back end does, makes no attempt on the
\* database (no transaction, no statement) and leaves the table unchanged.
C28_EmptyListIsNoOp ==
    (ms.pc = "done" /\ ms.op = "PutMessageSecrets" /\ ms.inserts = <<>>) =>
        /\ ms.err = NilErr
        /\ ms.hist = <<>>
        /\ msgSecrets = ms.before

\* C29: a read of a mutation value MAC either returns exactly 32 bytes or
\* fails with ErrInvalidLength: a stored value of another length is never
\* returned to the caller.
C29_FixedWidthReads ==
    (rd.pc = "done" /\ rd.op = "GetAppStateMutationMAC" /\ rd.rows # {}) =>
        \/ rd.err = Nil /\ rd.value.len = ValueMACLen
        \/ rd.err = ErrInvalidLength
        \/ rd.err = rd.db /\ rd.db # DbOK

\* The result the operations are to give for a row that does not exist.
AbsentResult(op, v) ==
    CASE op \in {"GetSession", "GetSenderKey", "GetMessageSecret",
                 "GetAppStateMutationMAC", "GetLatestAppStateSyncKeyID"} -> v.len = 0
      [] op = "HasSession" -> ~v.has
      [] op \in {"GetPreKey", "GetAppStateSyncKey", "GetPrivacyToken"} -> v = NilPointer
      [] op = "GetAppStateVersion" -> v.version = 0 /\ v.hash = Bytes(HashLen, "zero")
      [] op = "GetChatSettings" -> ~v.Found

KvPutColumns(call, i) ==
    CASE call.op = "PutAppStateVersion" ->
            [version |-> call.value.version, value |-> Bytes(HashLen, call.value.hash)]
      [] call.op = "PutPrivacyTokens" ->
            [version |-> 0, value |-> [token |-> call.value[i].Token,
                                        timestamp |-> call.value[i].Timestamp.sec]]
      [] OTHER -> [version |-> 0, value |-> call.value]

KvPuts == {"PutSession", "PutSenderKey", "PutAppStateVersion", "PutPrivacyTokens"}

\* The stored columns of a key of an account.
KvStored(rows, table, jid, key) ==
    {[version |-> r.version, value |-> r.value] :
        r \in {x \in rows[table] : x.jid = jid /\ x.key = key}}

KvLast(call, i) == \A j \in (i + 1)..Len(call.keys) : call.keys[j] # call.keys[i]

\* C31: for sessions, sender keys, app-state versions and privacy tokens, on
\* every dialect, a Put the back end does not fail (one PutPrivacyTokens call
\* with several tokens of different users included) leaves under each of its
\* keys exactly the value it was given and changes no other key and no other
\* account; a Get the back end
\* answers returns the stored value of its key.  Together: Get returns the
\* value of the most recent Put to that key of that account.
C31_PutStep ==
    (/\ kv.pc = "idle" /\ kv'.pc = "done" /\ kv'.op \in KvPuts /\ kv'.db = DbOK
     /\ \A i \in 1..Len(kv'.keys) : KvLast(kv', i)) =>
        /\ \A i \in 1..Len(kv'.keys) :
              KvStored(kvRows', kv'.table, kv'.jid, kv'.keys[i]) = {KvPutColumns(kv', i)}
        /\ \A t \in KvTables \ {kv'.table} : kvRows'[t] = kvRows[t]
        /\ \A r \in kvRows[kv'.table] \cup kvRows'[kv'.table] :
              (r.jid # kv'.jid \/ \A i \in 1..Len(kv'.keys) : r.key # kv'.keys[i])
                  => (r \in kvRows[kv'.table] /\ r \in kvRows'[kv'.table])

C31_GetStep ==
    (kv.pc = "idle" /\ kv'.pc = "done" /\ kv'.op \notin KvPuts /\ kv'.db = DbOK) =>
        /\ kvRows' = kvRows
        /\ kv'.err = Nil
        /\ \A c \in KvStored(kvRows, kv'.table, kv'.jid, kv'.keys[1]) :
              CASE kv'.op = "GetAppStateVersion" ->
                      kv'.value.version = c.version /\ kv'.value.hash = c.value
                [] kv'.op = "GetPrivacyToken" ->
                      /\ kv'.value.Token = c.value.token
                      /\ kv'.value.Timestamp.sec = c.value.timestamp
                [] OTHER -> kv'.value = c.value

C31_GetReturnsLastPut == [][C31_PutStep /\ C31_GetStep]_vars

\* The columns of a chat-settings row that a Put does not name.
OtherSettings(column) == {"muted_until", "pinned", "archived"} \ {column}

ChatRow(rows, jid, chat) == {r \in rows : r.our_jid = jid /\ r.chat_jid = chat}

\* C32: PutMutedUntil, PutPinned and PutArchived write only their own column:
\* on a chat with a row the other two columns keep their values, on a chat
\* without a row the other two take muted_until 0, pinned false, archived
\* false; no other row changes; and GetChatSettings returns the columns of the
\* row, a muted_until of 0 as the zero time.
C32_PutStep ==
    (cs.pc = "idle" /\ cs'.pc = "done" /\ cs'.op # "GetChatSettings" /\ cs'.db = DbOK) =>
        /\ cs'.err = Nil
        /\ \E new \in chatSettings' :
              /\ ChatRow(chatSettings', cs'.jid, cs'.chat) = {new}
              /\ \/ cs'.column = "muted_until" /\ new.muted_until = cs'.val
                 \/ cs'.column = "pinned" /\ new.pinned = cs'.val
                 \/ cs'.column = "archived" /\ new.archived = cs'.val
              /\ "muted_until" \in OtherSettings(cs'.column) =>
                    new.muted_until \in {r.muted_until : r \in ChatRow(chatSettings, cs'.jid, cs'.chat)}
                        \/ (ChatRow(chatSettings, cs'.jid, cs'.chat) = {} /\ new.muted_until = 0)
              /\ "pinned" \in OtherSettings(cs'.column) =>
                    new.pinned \in {r.pinned : r \in ChatRow(chatSettings, cs'.jid, cs'.chat)}
                        \/ (ChatRow(chatSettings, cs'.jid, cs'.chat) = {} /\ new.pinned = FALSE)
              /\ "archived" \in OtherSettings(cs'.column) =>
                    new.archived \in {r.archived : r \in ChatRow(chatSettings, cs'.jid, cs'.chat)}
                        \/ (ChatRow(chatSettings, cs'.jid, cs'.chat) = {} /\ new.archived = FALSE)
        /\ chatSettings' \ ChatRow(chatSettings', cs'.jid, cs'.chat)
              = chatSettings \ ChatRow(chatSettings, cs'.jid, cs'.chat)

C32_GetStep ==
    (cs.pc = "idle" /\ cs'.pc = "done" /\ cs'.op = "GetChatSettings" /\ cs'.db = DbOK) =>
        /\ chatSettings' = chatSettings
        /\ cs'.err = Nil
        /\ \A r \in ChatRow(chatSettings, cs'.jid, cs'.chat) :
              /\ cs'.val.Found
              /\ cs'.val.Pinned = r.pinned /\ cs'.val.Archived = r.archived
              /\ r.muted_until = 0 => cs'.val.MutedUntil = ZeroTime
              /\ r.muted_until # 0 => cs'.val.MutedUntil = [sec |-> r.muted_until, nsec |-> 0]

C32_ColumnScopedUpserts == [][C32_PutStep /\ C32_GetStep]_vars

\* PutPinned has just returned on a chat that was muted and archived, and the
\* row is still muted and archived.
C32_Witness ==
    /\ cs.pc = "done" /\ cs.op = "PutPinned" /\ cs.val = TRUE /\ cs.err = Nil
    /\ \E old \in cs.old :
          /\ old.muted_until = 5 /\ old.archived /\ ~old.pinned
          /\ [old EXCEPT !.pinned = TRUE] \in chatSettings

\* The text with one '?' in the place of each marker and nothing else changed.
IsMarkerDigit(q, p) ==
    /\ IsDigit(q[p])
    /\ \/ p > 1 /\ q[p - 1] = "$"
       \/ p > 2 /\ q[p - 2] = "$" /\ IsDigit(q[p - 1])

MarkersAsQuestions(q) ==
    LET kept == Ascending({p \in 1..Len(q) : ~IsMarkerDigit(q, p)})
    IN  [j \in 1..Len(kept) |-> IF q[kept[j]] = "$" THEN "?" ELSE q[kept[j]]]

\* The numbers of the markers of a text, from left to right.
MarkerNumbers(q) ==
    LET ps == Ascending(Positions(q, "$"))
    IN  [k \in 1..Len(ps) |-> NumberAt(q, ps[k] + 1)]

\* C33: on sqlite3 and mysql dialectQuery turns every marker $N, N in 1..20,
\* into exactly one '?' and leaves nothing else of it, and in every statement
\* the store renders this way the k-th '?' stands where the template named
\* argument k, so that there are as many '?' as arguments.
C33_MarkersBecomeQuestionMarks ==
    (dq.pc = "done" /\ dialect \in {"sqlite3", "mysql"}) =>
        /\ Len(dq.result) = Len(MarkersAsQuestions(dq.query))
        /\ Positions(dq.result, "?") = Positions(MarkersAsQuestions(dq.query), "?")
        /\ \A p \in 1..Len(dq.result) : ~IsDigit(dq.result[p]) /\ dq.result[p] # "$"
        /\ dq.nargs > 0 =>
              /\ Cardinality(Positions(dq.result, "?")) = dq.nargs
              /\ \A k \in 1..Len(MarkerNumbers(dq.query)) : MarkerNumbers(dq.query)[k] = k

\* C39: on postgres the statement putAppStateMutationMACs builds for n
\* mutations gives the index_mac and value_mac placeholders of row i
\* (i = 0..n-1) the arguments at positions 2i+4 and 2i+5, where the call passes
\* mutation i's IndexMAC and ValueMAC, and after a call that returned nil
\* GetAppStateMutationMAC finds for every mutation a row with its ValueMAC.
C39_BatchStatement ==
    [n \in 1..2 |-> Statement("postgres", putAppStateMutationMACsText("postgres", n))]

C39_PostgresBindsEachMutation ==
    (dialect = "postgres" /\ mm.pc = "done" /\ Len(mm.mutations) \in 1..2) =>
        LET n == Len(mm.mutations)
            st == C39_BatchStatement[n]
        IN  /\ \A i \in 0..(n - 1) :
                  /\ st.params[5 * i + 4] = 2 * i + 4
                  /\ st.params[5 * i + 5] = 2 * i + 5
            /\ mm.err = NilErr =>
                  \A k \in 1..n :
                      \E r \in getAppStateMutationMACQuery(mutationMACs, mm.name,
                                                           mm.mutations[k].IndexMAC) :
                          r.value = mm.mutations[k].ValueMAC

\* C35: DeleteAppStateMutationMACs(name, L) with a non-empty L that the back
\* end does not fail deletes exactly the rows of the name whose index_mac is
\* in L; it executes one statement, the ANY(array) delete exactly when the
\* dialect is postgres and a wrapper is registered, otherwise an IN list of
\* |L| placeholders, the i-th taking L[i], written with the same placeholder
\* character as the jid and name placeholders before it.
ListedMACs(L) == {L[k] : k \in 1..Len(L)}

UsesAny(text) == \E p \in 1..Len(text) : text[p] = "AND index_mac=ANY("

C35_DeleteEffect ==
    /\ mc.err = NilErr
    /\ mutationMACs =
          {m \in mc.before : ~(m.name = mc.name /\ m.index_mac \in ListedMACs(mc.indexMACs))}

C35_InList ==
    LET st == Statement(dialect, mc.text)
        ps == Placeholders(mc.text)
        n == Len(mc.indexMACs)
    IN  /\ Len(ps) = 2 + n
        /\ \A i \in 1..n : st.params[2 + i] = 2 + i
        /\ \A k \in 1..Len(ps) : mc.text[ps[k]] = mc.text[ps[1]]

C35_DeleteMutationMACs ==
    (/\ mc.pc = "done" /\ mc.op = "DeleteAppStateMutationMACs"
     /\ Len(mc.indexMACs) > 0 /\ mc.db = DbOK) =>
        /\ C35_DeleteEffect
        /\ mc.stmts = 1
        /\ UsesAny(mc.text) <=> (dialect = "postgres" /\ mc.wrapper)
        /\ ~UsesAny(mc.text) => C35_InList

\* C40: every mutation-MAC row belongs to a name that has an app-state
\* version row of the account: a PutAppStateMutationMACs call with mutations
\* for a name without a version row returns an error and leaves the table as
\* it was, and after DeleteAppStateVersion(name) returned nil no MAC row of
\* the name is left, so GetAppStateMutationMAC finds none for any index MAC.
C40_PutNeedsVersionRow ==
    (/\ mm.pc = "done" /\ Len(mm.mutations) > 0
     /\ ~HasVersionRow(kvRows[AppStateVersion], mm.name)) =>
        /\ mm.err # NilErr
        /\ mutationMACs = mm.before

C40_DeleteVersionDropsMACs ==
    (mc.pc = "done" /\ mc.op = "DeleteAppStateVersion" /\ mc.err = NilErr) =>
        \A indexMAC \in 1..3 :
            getAppStateMutationMACQuery(mutationMACs, mc.name, indexMAC) = {}

C40_MACsHaveVersionRow ==
    /\ \A m \in mutationMACs : HasVersionRow(kvRows[AppStateVersion], m.name)
    /\ C40_PutNeedsVersionRow
    /\ C40_DeleteVersionDropsMACs

\* C34: with the container's dialect tag sqlite every operation takes the
\* back end for the embedded engine: an Upgrade called with foreign keys
\* switched off stops at the pragma check with an error, and every statement
\* dialectQuery has rendered or a builder has made carries '?' placeholders
\* and no $N marker.
C34_UpgradeChecksPragma ==
    (up.pc \notin {"idle", "check"} /\ ~up.fk) => (up.pc = "done" /\ up.err # NilErr)

C34_QuestionMarksOnly ==
    dq.pc = "done" =>
        /\ Positions(dq.result, "$") = {}
        /\ Positions(dq.result, "?") # {}

C34_OneTagEverywhere ==
    dialect = "sqlite" => (C34_UpgradeChecksPragma /\ C34_QuestionMarksOnly)

\* C36: in putMessageSecretsWithRetry a delay is made only between two
\* attempts: the k-th delay of a chunk is 100*k ms and follows failed attempt
\* k, every delay is followed by another attempt, and the call returns with
\* one delay less than attempts made on its last chunk: none after the third
\* failed attempt, a successful attempt or an attempt that is not retried.
C36_DelaysOnlyBetweenAttempts ==
    ms.op = "PutMessageSecrets" =>
        /\ \A k \in 1..Len(ms.slept) : ms.slept[k] = 100 * k /\ ms.hist[k] # DbOK
        /\ ms.pc = "attempt" => Len(ms.slept) = Len(ms.hist)
        /\ ms.pc = "done" => Len(ms.slept) = Len(ms.hist) - 1

\* C37: whenever contactCacheLock is free and no PutAllContactNames stands
\* between its write and its cache clear, every cached record equals the row
\* the table holds for its contact: Found exactly when the row exists, each
\* name the column's text with NULL read as "", all names empty without a
\* row.  A PutPushName, PutBusinessName or PutContactName whose write fails
\* returns the error and changes neither the cache nor the table.
C37_Text(v) == IF v = Nil THEN "" ELSE v

C37_Matches(info, u) ==
    LET hit == {r \in contacts : r.their_jid = u}
    IN  /\ info.Found <=> hit # {}
        /\ hit = {} => /\ info.FirstName = "" /\ info.FullName = ""
                       /\ info.PushName = "" /\ info.BusinessName = ""
        /\ \A r \in hit :
              /\ info.FirstName = C37_Text(r.first_name)
              /\ info.FullName = C37_Text(r.full_name)
              /\ info.PushName = C37_Text(r.push_name)
              /\ info.BusinessName = C37_Text(r.business_name)

C37_Coherent ==
    (contactCacheLock = "free" /\ ct.pc # "clear") =>
        \A u \in DOMAIN contactCache : C37_Matches(contactCache[u], u)

C37_FailedWriteStep ==
    (cl.pc = "compare" /\ cl'.pc = "done" /\ cl'.err # NilErr) =>
        /\ contactCache' = contactCache
        /\ contacts' = contacts
        /\ ~cl'.wrote /\ ~cl'.changed

C37_CacheCoherence ==
    /\ []C37_Coherent
    /\ [][C37_FailedWriteStep]_vars

\* A Put*Name call has returned the error of its failed write for a contact
\* whose record, found earlier, is in the cache, while no other call is running.
C37_Witness ==
    /\ cl.pc = "done" /\ cl.op \in PutNameCalls /\ cl.err # NilErr
    /\ cl.user \in DOMAIN contactCache
    /\ contactCache[cl.user].Found
    /\ ct.pc = "idle"

\* C38: with one caller, whenever GetOrGenPreKeys returns an error (a failed
\* query, ErrInvalidLength on a stored key, a failed insert of a new key) the
\* table holds the pre-keys it held when the call took the lock: no key the
\* call generated remains stored.
C38_ReturnsError ==
    /\ pk[1].op = "GetOrGenPreKeys"
    /\ pk[1].pc \in {"query", "next", "insert"}
    /\ pk'[1].pc = "idle"
    /\ pkRet'.err # Nil

C38_AllOrNothingOnError ==
    [][C38_ReturnsError => preKeys' = pk[1].before]_vars

=============================================================================
